---- MODULE Spec2Model ----
(***************************************************************************)
(* A model of the k2000 package: the bit packer (k2000/encoding.py), the   *)
(* frame codec and message catalog (k2000/messages.py) and the synchronous *)
(* transaction client (k2000/client.py).                                   *)
(*                                                                         *)
(* Bytes are integers 0..255, byte strings are sequences of bytes, Python  *)
(* str values are sequences of code points.  A Python call that may raise  *)
(* is an operator returning Ok(value) or Err(exception).                   *)
(***************************************************************************)
EXTENDS Integers, Sequences, FiniteSets, TLC

VARIABLES
    inbound,    \* midi_in's queue: the raw frames buffered, in arrival order
    outbound,   \* everything written to midi_out, in order
    call,       \* per caller: the frame of its _send_and_receive call
    ncalls,     \* number of _send_and_receive calls started so far
    proxy,      \* the frame of a K2ObjectProxy.__getitem__ call
    msg,        \* codec: the message under test
    wire,       \* codec: the result of msg.encode()
    back,       \* codec: the result of SysexMessage.decode(wire)
    stage,      \* codec: "new", "encoded" or "decoded"
    buf,        \* frame: a raw buffer as delivered by the transport
    checked,    \* frame: has_valid_k2_headers has been applied to buf
    valid,      \* frame: the value has_valid_k2_headers returned
    _TYPE_MAP   \* messages.py's registry: type byte -> class

varsClient == <<inbound, outbound, call, ncalls, proxy>>
varsCodec == <<msg, wire, back, stage>>
varsFrame == <<buf, checked, valid>>
vars == <<inbound, outbound, call, ncalls, proxy, msg, wire, back, stage, buf, checked, valid,
          _TYPE_MAP>>

(***************************************************************************)
(* Results of calls that may raise.  An exception is a record: its class,  *)
(* what its message says, and, for the exception SysexMessage.decode       *)
(* raises "from e", the number (packet length, or unknown type byte) and   *)
(* class its message names and the class and message of the cause e.       *)
(***************************************************************************)
Exc(exc, why) == [exc |-> exc, why |-> why, num |-> 0, klass |-> "", cexc |-> "", cwhy |-> ""]
NoExc == Exc("none", "")
Ok(v) == [ok |-> TRUE, v |-> v, e |-> NoExc]
Err(e) == [ok |-> FALSE, v |-> <<>>, e |-> e]
Raise(exc, why) == Err(Exc(exc, why))

\* The exception of the first failing result of rs (Python evaluates the
\* operands of an expression left to right), NoExc when all succeed.
RECURSIVE FirstErr(_)
FirstErr(rs) ==
    IF rs = <<>> THEN NoExc
    ELSE IF ~Head(rs).ok THEN Head(rs).e
    ELSE FirstErr(Tail(rs))

RECURSIVE Flatten(_)
Flatten(rs) == IF rs = <<>> THEN <<>> ELSE Head(rs).v \o Flatten(Tail(rs))

\* b1 + b2 + ... of byte strings, each the result of a call that may raise.
Concat(rs) == IF FirstErr(rs) = NoExc THEN Ok(Flatten(rs)) ELSE Err(FirstErr(rs))

Min(a, b) == IF a < b THEN a ELSE b
Max(a, b) == IF a > b THEN a ELSE b

(***************************************************************************)
(* Python sequence slicing and indexing.                                   *)
(***************************************************************************)
PyIdx(n, i) == IF i < 0 THEN Max(n + i, 0) ELSE Min(i, n)

\* s[a:b]
PySlice(s, a, b) ==
    LET lo == PyIdx(Len(s), a)
        hi == PyIdx(Len(s), b)
    IN  IF lo >= hi THEN <<>> ELSE SubSeq(s, lo + 1, hi)

\* s[a:]
PySliceFrom(s, a) == PySlice(s, a, Len(s))

\* s[:b]
PySliceTo(s, b) == PySlice(s, 0, b)

\* s[i], which raises IndexError out of range
PyAt(s, i) ==
    LET j == IF i < 0 THEN Len(s) + i ELSE i
    IN  IF j < 0 \/ j >= Len(s) THEN Raise("IndexError", "index out of range") ELSE Ok(s[j + 1])

\* sum(data)
RECURSIVE PySum(_)
PySum(s) == IF s = <<>> THEN 0 ELSE Head(s) + PySum(Tail(s))

\* int.from_bytes(data, "big")
RECURSIVE from_bytes(_)
from_bytes(s) ==
    IF s = <<>> THEN 0 ELSE from_bytes(SubSeq(s, 1, Len(s) - 1)) * 256 + s[Len(s)]

(***************************************************************************)
(* k2000/encoding.py                                                       *)
(***************************************************************************)
IntV(i) == [ty |-> "int", int |-> i, bytes |-> <<>>]
BytesV(b) == [ty |-> "bytes", int |-> 0, bytes |-> b]

\* a variant that puts the least significant chunk first
Chunks_lsb_first(v, num_bytes, n) ==
    [k \in 1..num_bytes |-> (v \div (2 ^ (n * (k - 1)))) % (2 ^ n)]

\* the list comprehension of encode_n: the n-bit chunks, most significant first
Chunks(v, num_bytes, n) ==
    [k \in 1..num_bytes |-> (v \div (2 ^ (n * (num_bytes - k)))) % (2 ^ n)]

encode_n(value, num_bytes, n) ==
    IF value.ty = "int"
    THEN IF value.int < 0 THEN Raise("ValueError", "negative value")
         ELSE IF value.int >= 2 ^ (n * num_bytes) THEN Raise("ValueError", "value too large")
         ELSE Ok(Chunks(value.int, num_bytes, n))
    ELSE IF value.ty = "bytes"
    THEN Ok(Chunks(from_bytes(value.bytes), num_bytes, n))
    ELSE Raise("TypeError", "expected int or bytes")

\* encode[7] and encode[4], the partial applications the catalog uses
encode7(v, num_bytes) == encode_n(v, num_bytes, 7)
encode4(v, num_bytes) == encode_n(v, num_bytes, 4)

RECURSIVE bit_array_to_int(_)
bit_array_to_int(bits) ==
    IF bits = <<>> THEN 0
    ELSE 2 * bit_array_to_int(SubSeq(bits, 1, Len(bits) - 1))
         + (IF bits[Len(bits)] THEN 1 ELSE 0)

\* the n bits of one input byte, most significant first
ByteBits(b, n) == [i \in 1..n |-> ((b \div (2 ^ (n - i))) % 2) = 1]

RECURSIVE AllBits(_, _)
AllBits(value, n) ==
    IF value = <<>> THEN <<>> ELSE ByteBits(Head(value), n) \o AllBits(Tail(value), n)

\* the while loop of decode_n: pad on the left to a multiple of 8 bits
PadBits(bits) == [i \in 1..((8 - (Len(bits) % 8)) % 8) |-> FALSE] \o bits

\* a variant that drops the bits above the nth instead of raising
decode_n_masking(value, n) ==
    LET bits == PadBits(AllBits(value, n))
    IN  Ok([k \in 1..(Len(bits) \div 8) |->
               bit_array_to_int(SubSeq(bits, 8 * (k - 1) + 1, 8 * k))])

decode_n(value, n) ==
    IF \E i \in 1..Len(value) : value[i] \div (2 ^ n) # 0
    THEN Raise("ValueError", "bits set above the nth")
    ELSE LET bits == PadBits(AllBits(value, n))
         IN  Ok([k \in 1..(Len(bits) \div 8) |->
                    bit_array_to_int(SubSeq(bits, 8 * (k - 1) + 1, 8 * k))])

decode7(value) == decode_n(value, 7)
decode4(value) == decode_n(value, 4)

\* int.from_bytes(decode[7](data), "big")
DecodeInt7(data) ==
    LET r == decode7(data) IN IF r.ok THEN Ok(from_bytes(r.v)) ELSE r

(***************************************************************************)
(* k2000/definitions.py                                                    *)
(***************************************************************************)
ObjectType == {132, 133, 113, 112, 135, 134, 104, 105, 111, 103}
ButtonEventType == {8, 9, 10, 13}
Button ==
    {0, 1, 2, 3, 4, 5, 6, 7, 8, 9, 10, 11, 12, 13, 22, 23, 30, 20, 21, 28, 18, 19, 26,
     16, 17, 34, 35, 36, 37, 38, 39, 40, 41, 42, 32, 33, 64, 65, 66, 71, 68, 67, 70, 69}
EncodingFormat == {0, 1}
Nibblized == 0
BitStream == 1
WriteMode == {0, 1}
ErrorCode == {1, 2, 3, 4, 5}

\* Enum(value): the member with that value, ValueError when there is none
EnumOf(members, r) ==
    IF ~r.ok THEN r
    ELSE IF r.v \in members THEN r
    ELSE Raise("ValueError", "not a valid enum value")

(***************************************************************************)
(* k2000/messages.py: constants                                            *)
(***************************************************************************)
K2_HEADER == <<240, 7, 0, 120>>
K2_FOOTER == <<247>>
MIN_PACKET_SIZE == Len(K2_HEADER) + 1 + Len(K2_FOOTER)

(***************************************************************************)
(* k2000/messages.py: the message catalog.  A message is a record whose    *)
(* kind names its class; enum-typed fields hold the member's value.        *)
(***************************************************************************)
E7(i, num_bytes) == encode7(IntV(i), num_bytes)
Bool2Int(b) == IF b THEN 1 ELSE 0

\* name.encode("ascii")
AsciiEncode(name) ==
    IF \E i \in 1..Len(name) : name[i] > 127
    THEN Raise("UnicodeEncodeError", "ordinal not in range(128)")
    ELSE Ok(name)

\* data.decode("ascii")
AsciiDecode(data) ==
    IF \E i \in 1..Len(data) : data[i] > 127
    THEN Raise("UnicodeDecodeError", "ordinal not in range(128)")
    ELSE Ok(data)

\* the leading fields every object message decodes
DecType(data) == EnumOf(ObjectType, DecodeInt7(PySliceTo(data, 2)))
DecIdno(data) == DecodeInt7(PySlice(data, 2, 4))

\* the result of a body decoder: the message when no field raised
Built(fields, m) == IF FirstErr(fields) = NoExc THEN Ok(m) ELSE Err(FirstErr(fields))

\* math.ceil(len(data) * 8 / 4) and math.ceil(len(data) * 8 / 7)
NibbleCount(data) == (Len(data) * 8 + 3) \div 4
SeptetCount(data) == (Len(data) * 8 + 6) \div 7

\* encoded_data of Load and Write
EncodedData(m) ==
    IF m.form = Nibblized
    THEN encode4(BytesV(m.data), NibbleCount(m.data))
    ELSE encode7(BytesV(m.data), SeptetCount(m.data))

\* a variant that sums nothing
Checksum_nothing(packed) == 0

\* sum(...) & 0b1111111
Checksum(packed) == PySum(packed) % 128

\* a variant that keeps the padding: no [-size:]
DecodedData_untrimmed(form, region, size) ==
    IF form = Nibblized THEN decode4(region) ELSE decode7(region)

\* decode[4](region)[-size:] or decode[7](region)[-size:]
DecodedData(form, region, size) ==
    LET r == IF form = Nibblized THEN decode4(region) ELSE decode7(region)
    IN  IF r.ok THEN Ok(PySliceFrom(r.v, 0 - size)) ELSE r

EmptyBody_decode_body(kind, data) ==
    IF data # <<>> THEN Raise("AssertionError", "expected no body") ELSE Ok([kind |-> kind])

EmptyBody_encode_body(m) == Ok(<<>>)

Dump_encode_body(m) ==
    Concat(<<E7(m.type, 2), E7(m.idno, 2), E7(m.offset, 3), E7(m.size, 3), E7(m.form, 1)>>)

Dump_decode_body(data) ==
    LET type == DecType(data)
        idno == DecIdno(data)
        offset == DecodeInt7(PySlice(data, 4, 7))
        size == DecodeInt7(PySlice(data, 7, 10))
        form == EnumOf(EncodingFormat, PyAt(data, 10))
    IN  Built(<<type, idno, offset, size, form>>,
              [kind |-> "Dump", type |-> type.v, idno |-> idno.v, offset |-> offset.v,
               size |-> size.v, form |-> form.v])

Load_encode_body(m) ==
    LET encoded_data == EncodedData(m)
    IN  IF ~encoded_data.ok THEN encoded_data
        ELSE Concat(<<E7(m.type, 2), E7(m.idno, 2), E7(m.offset, 3), E7(Len(m.data), 3),
                      E7(m.form, 1), encoded_data, E7(Checksum(encoded_data.v), 1)>>)

\* a variant that never compares the checksums
Load_decode_body_unchecked(data) ==
    LET type == DecType(data)
        idno == DecIdno(data)
        offset == DecodeInt7(PySlice(data, 4, 7))
        size == DecodeInt7(PySlice(data, 7, 10))
        form == EnumOf(EncodingFormat, PyAt(data, 10))
        head == FirstErr(<<type, idno, offset, size, form>>)
        region == PySlice(data, 11, 0 - 1)
        data_bytes == DecodedData(form.v, region, size.v)
    IN  IF head # NoExc THEN Err(head)
        ELSE IF ~data_bytes.ok THEN data_bytes
        ELSE Ok([kind |-> "Load", type |-> type.v, idno |-> idno.v, offset |-> offset.v,
                 form |-> form.v, data |-> data_bytes.v])

Load_decode_body(data) ==
    LET type == DecType(data)
        idno == DecIdno(data)
        offset == DecodeInt7(PySlice(data, 4, 7))
        size == DecodeInt7(PySlice(data, 7, 10))
        form == EnumOf(EncodingFormat, PyAt(data, 10))
        head == FirstErr(<<type, idno, offset, size, form>>)
        region == PySlice(data, 11, 0 - 1)
        calculated_checksum == Checksum(region)
        encoded_checksum == PyAt(data, 0 - 1)
        data_bytes == DecodedData(form.v, region, size.v)
    IN  IF head # NoExc THEN Err(head)
        ELSE IF ~encoded_checksum.ok THEN encoded_checksum
        ELSE IF calculated_checksum # encoded_checksum.v
        THEN Raise("ValueError", "checksum mismatch")
        ELSE IF ~data_bytes.ok THEN data_bytes
        ELSE Ok([kind |-> "Load", type |-> type.v, idno |-> idno.v, offset |-> offset.v,
                 form |-> form.v, data |-> data_bytes.v])

DataAcknowledged_encode_body(m) ==
    Concat(<<E7(m.type, 2), E7(m.idno, 2), E7(m.offset, 3), E7(m.size, 3)>>)

DataAcknowledged_decode_body(data) ==
    LET type == DecType(data)
        idno == DecIdno(data)
        offset == DecodeInt7(PySlice(data, 4, 7))
        size == DecodeInt7(PySlice(data, 7, 10))
    IN  Built(<<type, idno, offset, size>>,
              [kind |-> "DataAcknowledged", type |-> type.v, idno |-> idno.v,
               offset |-> offset.v, size |-> size.v])

DataNotAcknowledged_encode_body(m) ==
    Concat(<<E7(m.type, 2), E7(m.idno, 2), E7(m.offset, 3), E7(m.size, 3), E7(m.code, 1)>>)

DataNotAcknowledged_decode_body(data) ==
    LET type == DecType(data)
        idno == DecIdno(data)
        offset == DecodeInt7(PySlice(data, 4, 7))
        size == DecodeInt7(PySlice(data, 7, 10))
        code == EnumOf(ErrorCode, PyAt(data, 10))
    IN  Built(<<type, idno, offset, size, code>>,
              [kind |-> "DataNotAcknowledged", type |-> type.v, idno |-> idno.v,
               offset |-> offset.v, size |-> size.v, code |-> code.v])

\* Dir and Del share a layout
TypeIdno_encode_body(m) == Concat(<<E7(m.type, 2), E7(m.idno, 2)>>)

TypeIdno_decode_body(kind, data) ==
    LET type == DecType(data)
        idno == DecIdno(data)
    IN  Built(<<type, idno>>, [kind |-> kind, type |-> type.v, idno |-> idno.v])

Dir_encode_body(m) == TypeIdno_encode_body(m)
Dir_decode_body(data) == TypeIdno_decode_body("Dir", data)
Del_encode_body(m) == TypeIdno_encode_body(m)
Del_decode_body(data) == TypeIdno_decode_body("Del", data)

Info_encode_body(m) ==
    Concat(<<E7(m.type, 2), E7(m.idno, 2), E7(m.size, 3), E7(Bool2Int(m.in_ram), 1),
             AsciiEncode(m.name), Ok(<<0>>)>>)

Info_decode_body(data) ==
    LET type == DecType(data)
        idno == DecIdno(data)
        size == DecodeInt7(PySlice(data, 4, 7))
        flag == PyAt(data, 7)
        name == AsciiDecode(PySlice(data, 8, 0 - 1))
    IN  Built(<<type, idno, size, flag, name>>,
              [kind |-> "Info", type |-> type.v, idno |-> idno.v, size |-> size.v,
               in_ram |-> (flag.v # 0), name |-> name.v])

New_encode_body(m) ==
    Concat(<<E7(m.type, 2), E7(m.idno, 2), E7(m.size, 3), E7(Bool2Int(m.create_ram_copy), 1),
             AsciiEncode(m.name), Ok(<<0>>)>>)

New_decode_body(data) ==
    LET type == DecType(data)
        idno == DecIdno(data)
        size == DecodeInt7(PySlice(data, 4, 7))
        flag == PyAt(data, 7)
        name == AsciiDecode(PySlice(data, 8, 0 - 1))
    IN  Built(<<type, idno, size, flag, name>>,
              [kind |-> "New", type |-> type.v, idno |-> idno.v, size |-> size.v,
               create_ram_copy |-> (flag.v # 0), name |-> name.v])

Change_encode_body(m) ==
    Concat(<<E7(m.type, 2), E7(m.idno, 2), E7(m.newid, 2), AsciiEncode(m.name), Ok(<<0>>)>>)

Change_decode_body(data) ==
    LET type == DecType(data)
        idno == DecIdno(data)
        newid == DecodeInt7(PySlice(data, 4, 6))
        name == AsciiDecode(PySlice(data, 6, 0 - 1))
    IN  Built(<<type, idno, newid, name>>,
              [kind |-> "Change", type |-> type.v, idno |-> idno.v, newid |-> newid.v,
               name |-> name.v])

\* data.index(b"\x00"): the offset of the first zero byte, ValueError when none
IndexOfZero(data) ==
    IF \E i \in 1..Len(data) : data[i] = 0
    THEN Ok((CHOOSE i \in 1..Len(data) : data[i] = 0 /\ \A j \in 1..(i - 1) : data[j] # 0) - 1)
    ELSE Raise("ValueError", "subsection not found")

Write_encode_body(m) ==
    LET encoded_data == EncodedData(m)
    IN  IF ~encoded_data.ok THEN encoded_data
        ELSE Concat(<<E7(m.type, 2), E7(m.idno, 2), E7(Len(m.data), 3), E7(m.mode, 1),
                      AsciiEncode(m.name), Ok(<<0>>), E7(m.form, 1), encoded_data,
                      E7(Checksum(encoded_data.v), 1)>>)

Write_decode_body(data) ==
    LET type == DecType(data)
        idno == DecIdno(data)
        size == DecodeInt7(PySlice(data, 4, 7))
        mode == EnumOf(WriteMode, PyAt(data, 7))
        zero == IndexOfZero(PySliceFrom(data, 8))
        end_of_name == 8 + zero.v
        name == AsciiDecode(PySlice(data, 8, end_of_name))
        form == EnumOf(EncodingFormat, PyAt(data, end_of_name + 1))
        head == FirstErr(<<type, idno, size, mode, zero>>)
        region == PySlice(data, end_of_name + 2, 0 - 1)
        calculated_checksum == Checksum(region)
        encoded_checksum == PyAt(data, 0 - 1)
        data_bytes == DecodedData(form.v, region, size.v)
    IN  IF head # NoExc THEN Err(head)
        ELSE IF ~name.ok THEN name
        ELSE IF ~form.ok THEN form
        ELSE IF ~encoded_checksum.ok THEN encoded_checksum
        ELSE IF calculated_checksum # encoded_checksum.v
        THEN Raise("ValueError", "checksum mismatch")
        ELSE IF ~data_bytes.ok THEN data_bytes
        ELSE Ok([kind |-> "Write", type |-> type.v, idno |-> idno.v, mode |-> mode.v,
                 name |-> name.v, form |-> form.v, data |-> data_bytes.v])

Read_encode_body(m) == Concat(<<E7(m.type, 2), E7(m.idno, 2), E7(m.form, 1)>>)

Read_decode_body(data) ==
    LET type == DecType(data)
        idno == DecIdno(data)
        form == EnumOf(EncodingFormat, PyAt(data, 4))
    IN  Built(<<type, idno, form>>,
              [kind |-> "Read", type |-> type.v, idno |-> idno.v, form |-> form.v])

ReadBank_encode_body(m) ==
    Concat(<<E7(m.type, 2), E7(m.bank, 1), E7(m.form, 1), E7(Bool2Int(m.ram_only), 1)>>)

ReadBank_decode_body(data) ==
    LET type == DecType(data)
        bank == PyAt(data, 2)
        form == EnumOf(EncodingFormat, PyAt(data, 3))
        flag == PyAt(data, 4)
    IN  Built(<<type, bank, form, flag>>,
              [kind |-> "ReadBank", type |-> type.v, bank |-> bank.v, form |-> form.v,
               ram_only |-> (flag.v # 0)])

DirBank_encode_body(m) ==
    Concat(<<E7(m.type, 2), E7(m.bank, 1), E7(Bool2Int(m.ram_only), 1)>>)

DirBank_decode_body(data) ==
    LET type == DecType(data)
        bank == PyAt(data, 2)
        flag == PyAt(data, 3)
    IN  Built(<<type, bank, flag>>,
              [kind |-> "DirBank", type |-> type.v, bank |-> bank.v,
               ram_only |-> (flag.v # 0)])

\* EndOfBank and DelBank share a layout
TypeBank_encode_body(m) == Concat(<<E7(m.type, 2), E7(m.bank, 1)>>)

TypeBank_decode_body(kind, data) ==
    LET type == DecType(data)
        bank == PyAt(data, 2)
    IN  Built(<<type, bank>>, [kind |-> kind, type |-> type.v, bank |-> bank.v])

EndOfBank_encode_body(m) == TypeBank_encode_body(m)
EndOfBank_decode_body(data) == TypeBank_decode_body("EndOfBank", data)
DelBank_encode_body(m) == TypeBank_encode_body(m)
DelBank_decode_body(data) == TypeBank_decode_body("DelBank", data)

MoveBank_encode_body(m) == Concat(<<E7(m.type, 2), E7(m.bank, 1), E7(m.newbank, 1)>>)

MoveBank_decode_body(data) ==
    LET type == DecType(data)
        bank == PyAt(data, 2)
        newbank == PyAt(data, 3)
    IN  Built(<<type, bank, newbank>>,
              [kind |-> "MoveBank", type |-> type.v, bank |-> bank.v, newbank |-> newbank.v])

MacroDone_encode_body(m) == E7(Bool2Int(m.error), 1)

MacroDone_decode_body(data) ==
    LET flag == PyAt(data, 0)
    IN  Built(<<flag>>, [kind |-> "MacroDone", error |-> (flag.v # 0)])

EXPECTED_SIZE == 3

\* the attrs validator of ButtonEvent.alpha_wheel_clicks
ValidClicks(value) ==
    IF value < 0 - 64 \/ value > 63
    THEN Raise("ValueError", "alpha_wheel_clicks out of range")
    ELSE Ok(value)

ButtonEvent_decode(data) ==
    IF Len(data) # EXPECTED_SIZE THEN Raise("ValueError", "expected 3 bytes")
    ELSE LET event_type == EnumOf(ButtonEventType, Ok(data[1]))
             button == EnumOf(Button, Ok(data[2]))
             clicks == ValidClicks(data[3] - 64)
         IN  Built(<<event_type, button, clicks>>,
                   [event_type |-> event_type.v, button |-> button.v,
                    alpha_wheel_clicks |-> clicks.v])

\* a variant that offsets the wheel clicks by 128
ButtonEvent_encode_offset128(ev) ==
    LET bs == <<ev.event_type, ev.button, ev.alpha_wheel_clicks + 128>>
    IN  IF \E i \in 1..3 : bs[i] < 0 \/ bs[i] > 255
        THEN Raise("ValueError", "bytes must be in range(0, 256)")
        ELSE Ok(bs)

\* bytes([...]) raises ValueError for an element outside range(256)
ButtonEvent_encode(ev) ==
    LET bs == <<ev.event_type, ev.button, ev.alpha_wheel_clicks + 64>>
    IN  IF \E i \in 1..3 : bs[i] < 0 \/ bs[i] > 255
        THEN Raise("ValueError", "bytes must be in range(0, 256)")
        ELSE Ok(bs)

\* grouper pads the last chunk with None, which bytes(chunk) rejects
RECURSIVE Panel_decode_events(_)
Panel_decode_events(data) ==
    IF data = <<>> THEN Ok(<<>>)
    ELSE IF Len(data) < EXPECTED_SIZE
    THEN Raise("TypeError", "NoneType cannot be interpreted as an integer")
    ELSE LET ev == ButtonEvent_decode(SubSeq(data, 1, EXPECTED_SIZE))
             rest == Panel_decode_events(SubSeq(data, EXPECTED_SIZE + 1, Len(data)))
         IN  IF ~ev.ok THEN ev
             ELSE IF ~rest.ok THEN rest
             ELSE Ok(<<ev.v>> \o rest.v)

Panel_decode_body(data) ==
    LET evs == Panel_decode_events(data)
    IN  IF evs.ok THEN Ok([kind |-> "Panel", button_events |-> evs.v]) ELSE evs

Panel_encode_body(m) ==
    Concat([i \in 1..Len(m.button_events) |-> ButtonEvent_encode(m.button_events[i])])

ScreenReply_encode_body(m) == Ok(m.data)
ScreenReply_decode_body(data) == Ok([kind |-> "ScreenReply", data |-> data])

\* the classes whose body is EmptyBody's
EmptyKinds == {"LoadMacro", "AllText", "ParameterValue", "ParameterName", "GetGraphics"}

\* _msg_type_int of each class
MsgTypeInt ==
    [Dump |-> 0, Load |-> 1, DataAcknowledged |-> 2, DataNotAcknowledged |-> 3, Dir |-> 4,
     Info |-> 5, New |-> 6, Del |-> 7, Change |-> 8, Write |-> 9, Read |-> 10,
     ReadBank |-> 11, DirBank |-> 12, EndOfBank |-> 13, DelBank |-> 14, MoveBank |-> 15,
     LoadMacro |-> 16, MacroDone |-> 17, Panel |-> 20, AllText |-> 21,
     ParameterValue |-> 22, ParameterName |-> 23, GetGraphics |-> 24, ScreenReply |-> 25]

Kinds == DOMAIN MsgTypeInt

\* __ALL_MESSAGE_TYPES: SysexMessage.__subclasses__(), in the order the
\* classes are defined
__ALL_MESSAGE_TYPES ==
    <<"Dump", "Load", "DataAcknowledged", "DataNotAcknowledged", "Dir", "Info", "New", "Del",
      "Change", "Write", "Read", "ReadBank", "DirBank", "EndOfBank", "DelBank", "MoveBank",
      "LoadMacro", "MacroDone", "Panel", "AllText", "ParameterValue", "ParameterName",
      "GetGraphics", "ScreenReply">>

\* a variant that keeps the type byte's low nibble only
Registered_low_nibble(table, cls) ==
    [b \in DOMAIN table \cup {MsgTypeInt[cls] % 16} |->
        IF b = MsgTypeInt[cls] % 16 THEN cls ELSE table[b]]

\* "_TYPE_MAP[cls._msg_type_int] = cls": the table after the assignment
Registered(table, cls) ==
    [b \in DOMAIN table \cup {MsgTypeInt[cls]} |->
        IF b = MsgTypeInt[cls] THEN cls ELSE table[b]]

\* _TYPE_MAP after the module's closing loop over the first n classes
RECURSIVE TypeMapAfter(_)
TypeMapAfter(n) ==
    IF n = 0 THEN <<>> ELSE Registered(TypeMapAfter(n - 1), __ALL_MESSAGE_TYPES[n])

\* the module has been imported: the closing loop has run
Imported == _TYPE_MAP = TypeMapAfter(Len(__ALL_MESSAGE_TYPES))


encode_body(m) ==
    CASE m.kind = "Dump" -> Dump_encode_body(m)
      [] m.kind = "Load" -> Load_encode_body(m)
      [] m.kind = "DataAcknowledged" -> DataAcknowledged_encode_body(m)
      [] m.kind = "DataNotAcknowledged" -> DataNotAcknowledged_encode_body(m)
      [] m.kind = "Dir" -> Dir_encode_body(m)
      [] m.kind = "Info" -> Info_encode_body(m)
      [] m.kind = "New" -> New_encode_body(m)
      [] m.kind = "Del" -> Del_encode_body(m)
      [] m.kind = "Change" -> Change_encode_body(m)
      [] m.kind = "Write" -> Write_encode_body(m)
      [] m.kind = "Read" -> Read_encode_body(m)
      [] m.kind = "ReadBank" -> ReadBank_encode_body(m)
      [] m.kind = "DirBank" -> DirBank_encode_body(m)
      [] m.kind = "EndOfBank" -> EndOfBank_encode_body(m)
      [] m.kind = "DelBank" -> DelBank_encode_body(m)
      [] m.kind = "MoveBank" -> MoveBank_encode_body(m)
      [] m.kind = "MacroDone" -> MacroDone_encode_body(m)
      [] m.kind = "Panel" -> Panel_encode_body(m)
      [] m.kind = "ScreenReply" -> ScreenReply_encode_body(m)
      [] m.kind \in EmptyKinds -> EmptyBody_encode_body(m)

decode_body(klass, data) ==
    CASE klass = "Dump" -> Dump_decode_body(data)
      [] klass = "Load" -> Load_decode_body(data)
      [] klass = "DataAcknowledged" -> DataAcknowledged_decode_body(data)
      [] klass = "DataNotAcknowledged" -> DataNotAcknowledged_decode_body(data)
      [] klass = "Dir" -> Dir_decode_body(data)
      [] klass = "Info" -> Info_decode_body(data)
      [] klass = "New" -> New_decode_body(data)
      [] klass = "Del" -> Del_decode_body(data)
      [] klass = "Change" -> Change_decode_body(data)
      [] klass = "Write" -> Write_decode_body(data)
      [] klass = "Read" -> Read_decode_body(data)
      [] klass = "ReadBank" -> ReadBank_decode_body(data)
      [] klass = "DirBank" -> DirBank_decode_body(data)
      [] klass = "EndOfBank" -> EndOfBank_decode_body(data)
      [] klass = "DelBank" -> DelBank_decode_body(data)
      [] klass = "MoveBank" -> MoveBank_decode_body(data)
      [] klass = "MacroDone" -> MacroDone_decode_body(data)
      [] klass = "Panel" -> Panel_decode_body(data)
      [] klass = "ScreenReply" -> ScreenReply_decode_body(data)
      [] klass \in EmptyKinds -> EmptyBody_decode_body(klass, data)

(***************************************************************************)
(* k2000/messages.py: SysexMessage, the frame codec                        *)
(***************************************************************************)
\* a loop "for expected, actual in zip(a, b): if expected != actual: ..."
\* runs to its end without finding a difference
ZipEqual(a, b) == \A i \in 1..Min(Len(a), Len(b)) : a[i] = b[i]

\* a variant that never looks at the footer
has_valid_k2_headers_no_footer(data) ==
    Len(data) >= MIN_PACKET_SIZE /\ ZipEqual(PySliceTo(data, Len(K2_HEADER)), K2_HEADER)

has_valid_k2_headers(data) ==
    IF Len(data) < MIN_PACKET_SIZE THEN FALSE
    ELSE IF ~ZipEqual(PySliceTo(data, Len(K2_HEADER)), K2_HEADER) THEN FALSE
    ELSE IF ~ZipEqual(PySliceFrom(data, 0 - Len(K2_FOOTER)), K2_FOOTER) THEN FALSE
    ELSE TRUE

\* "raise ValueError(...) from e": the packet length, the class and the cause
DecodeFailed(len, klass, cause) ==
    [exc |-> "ValueError", why |-> "failed to decode packet", num |-> len, klass |-> klass,
     cexc |-> cause.exc, cwhy |-> cause.why]

\* a variant that looks at the footer before the header, and takes any type
\* byte below 32 for one of the catalog's
decode_lax(data) ==
    IF Len(data) < MIN_PACKET_SIZE THEN Raise("ValueError", "packet too small")
    ELSE IF ~ZipEqual(PySliceFrom(data, 0 - Len(K2_FOOTER)), K2_FOOTER)
    THEN Raise("ValueError", "invalid footer")
    ELSE IF ~ZipEqual(PySliceTo(data, Len(K2_HEADER)), K2_HEADER)
    THEN Raise("ValueError", "invalid header")
    ELSE LET message_type == data[Len(K2_HEADER) + 1]
         IN  IF message_type >= 32
             THEN Err([Exc("NotImplementedError", "unknown message type")
                          EXCEPT !.num = message_type])
             ELSE LET klass == IF message_type \in DOMAIN _TYPE_MAP
                               THEN _TYPE_MAP[message_type] ELSE "ScreenReply"
                      sub_data == PySlice(data, Len(K2_HEADER) + 1, 0 - Len(K2_FOOTER))
                      r == decode_body(klass, sub_data)
                  IN  IF r.ok THEN r ELSE Err(DecodeFailed(Len(data), klass, r.e))

decode(data) ==
    IF Len(data) < MIN_PACKET_SIZE THEN Raise("ValueError", "packet too small")
    ELSE IF ~ZipEqual(PySliceTo(data, Len(K2_HEADER)), K2_HEADER)
    THEN Raise("ValueError", "invalid header")
    ELSE IF ~ZipEqual(PySliceFrom(data, 0 - Len(K2_FOOTER)), K2_FOOTER)
    THEN Raise("ValueError", "invalid footer")
    ELSE LET message_type == data[Len(K2_HEADER) + 1]
         IN  IF message_type \notin DOMAIN _TYPE_MAP
             THEN Err([Exc("NotImplementedError", "unknown message type")
                          EXCEPT !.num = message_type])
             ELSE LET klass == _TYPE_MAP[message_type]
                      sub_data == PySlice(data, Len(K2_HEADER) + 1, 0 - Len(K2_FOOTER))
                      r == decode_body(klass, sub_data)
                  IN  IF r.ok THEN r ELSE Err(DecodeFailed(Len(data), klass, r.e))

encode(m) ==
    LET body == encode_body(m)
    IN  IF body.ok THEN Ok(K2_HEADER \o <<MsgTypeInt[m.kind]>> \o body.v \o K2_FOOTER)
        ELSE body

(***************************************************************************)
(* Bounds of the model                                                     *)
(***************************************************************************)
\* longest raw buffer handed to has_valid_k2_headers
MaxBufLen == 7
\* most bytes encode_n is asked for, and longest buffer handed to decode_n
MaxNumBytes == 3
\* longest data buffer of a Load, Write or ScreenReply message
MaxDataLen == 2
\* most button events in a Panel message
MaxEvents == 2

(***************************************************************************)
(* The idle values of the three groups of variables                        *)
(***************************************************************************)
NoMsg == [kind |-> "none"]
NotYet == Err(NoExc)

CodecIdle == msg = NoMsg /\ wire = NotYet /\ back = NotYet /\ stage = "idle"
FrameIdle == buf = <<>> /\ checked = FALSE /\ valid = FALSE

(***************************************************************************)
(* Raw buffers: has_valid_k2_headers applied to what the transport may     *)
(* deliver.  The first four bytes range over the header's bytes (so every  *)
(* position is right in some buffers and wrong in others), the rest over a *)
(* catalog type byte, a zero, a product-id byte and the footer.            *)
(***************************************************************************)
HeadBytes == {240, 7, 0, 120}
TailBytes == {4, 0, 120, 247}

BytesAt(pos) == IF pos <= Len(K2_HEADER) THEN HeadBytes ELSE TailBytes

FrameAppend ==
    /\ Len(buf) < MaxBufLen
    /\ \E b \in BytesAt(Len(buf) + 1) : buf' = Append(buf, b)
    /\ checked' = FALSE
    /\ valid' = FALSE
    /\ UNCHANGED <<_TYPE_MAP, varsClient, varsCodec>>

FrameValidate ==
    /\ ~checked
    /\ valid' = has_valid_k2_headers(buf)
    /\ checked' = TRUE
    /\ UNCHANGED <<_TYPE_MAP, buf, varsClient, varsCodec>>

(***************************************************************************)
(* Messages: every class of the catalog, its fields drawn from the ends    *)
(* and the middle of their domains.                                        *)
(***************************************************************************)
RECURSIVE SeqsUpTo(_, _)
SeqsUpTo(S, n) ==
    IF n = 0 THEN {<<>>}
    ELSE LET shorter == SeqsUpTo(S, n - 1)
         IN  shorter \cup {Append(s, x) : s \in {t \in shorter : Len(t) = n - 1}, x \in S}

Idnos == {0, 123, 2 ^ 14 - 1}
Offsets == {0, 128, 2 ^ 21 - 1}
Banks == {0, 9, 127}
\* "", "Hi", " " and the last ASCII character
Names == {<<>>, <<72, 105>>, <<32>>, <<127>>}
DataBytes == {0, 1, 247, 255}
Datas == SeqsUpTo(DataBytes, MaxDataLen)
Events ==
    [event_type : {8, 9}, button : {0, 38}, alpha_wheel_clicks : {0}]
    \cup [event_type : {13}, button : {11}, alpha_wheel_clicks : {0 - 64, 63}]

Messages ==
    [kind : {"Dump"}, type : ObjectType, idno : Idnos, offset : Offsets, size : Offsets,
     form : EncodingFormat]
    \cup [kind : {"Load"}, type : ObjectType, idno : Idnos, offset : Offsets,
          form : EncodingFormat, data : Datas]
    \cup [kind : {"DataAcknowledged"}, type : ObjectType, idno : Idnos, offset : Offsets,
          size : Offsets]
    \cup [kind : {"DataNotAcknowledged"}, type : ObjectType, idno : Idnos, offset : Offsets,
          size : Offsets, code : ErrorCode]
    \cup [kind : {"Dir", "Del"}, type : ObjectType, idno : Idnos]
    \cup [kind : {"Info"}, type : ObjectType, idno : Idnos, size : Offsets,
          in_ram : BOOLEAN, name : Names]
    \cup [kind : {"New"}, type : ObjectType, idno : Idnos, size : Offsets,
          create_ram_copy : BOOLEAN, name : Names]
    \cup [kind : {"Change"}, type : ObjectType, idno : Idnos, newid : Idnos, name : Names]
    \cup [kind : {"Write"}, type : ObjectType, idno : Idnos, mode : WriteMode, name : Names,
          form : EncodingFormat, data : Datas]
    \cup [kind : {"Read"}, type : ObjectType, idno : Idnos, form : EncodingFormat]
    \cup [kind : {"ReadBank"}, type : ObjectType, bank : Banks, form : EncodingFormat,
          ram_only : BOOLEAN]
    \cup [kind : {"DirBank"}, type : ObjectType, bank : Banks, ram_only : BOOLEAN]
    \cup [kind : {"EndOfBank", "DelBank"}, type : ObjectType, bank : Banks]
    \cup [kind : {"MoveBank"}, type : ObjectType, bank : Banks, newbank : Banks]
    \cup [kind : {"MacroDone"}, error : BOOLEAN]
    \cup [kind : {"Panel"}, button_events : SeqsUpTo(Events, MaxEvents)]
    \cup [kind : {"ScreenReply"}, data : Datas]
    \cup [kind : EmptyKinds]

\* original.encode()
CodecEncode ==
    /\ stage = "new"
    /\ wire' = encode(msg)
    /\ stage' = "encoded"
    /\ UNCHANGED <<_TYPE_MAP, msg, back, varsClient, varsFrame>>

\* SysexMessage.decode(original.encode())
CodecDecode ==
    /\ stage = "encoded"
    /\ wire.ok
    /\ back' = decode(wire.v)
    /\ stage' = "decoded"
    /\ UNCHANGED <<_TYPE_MAP, msg, wire, varsClient, varsFrame>>


(***************************************************************************)
(* k2000/client.py: K2BaseClient._send_and_receive                         *)
(*                                                                         *)
(* One step of a call is one pass of its polling loop (a get_message and   *)
(* the sleep that follows), so that frames may arrive, and another         *)
(* caller's passes may run, between two polls.  Timeouts are in            *)
(* milliseconds.                                                           *)
(***************************************************************************)
\* most _send_and_receive calls in one behaviour
MaxCalls == 2
\* most frames buffered in midi_in at once
MaxInbound == 1

\* the timeouts of the direct calls, in milliseconds: none (the tests'
\* timeout=0.0), one that is no multiple of the 10 ms tick, and one that
\* lets the loop make several passes
Timeouts == {0, 15, 30}

\* _response_classes of each class; the default is the empty list
ResponseClasses ==
    [k \in Kinds |->
        CASE k = "Dump" -> {"Load"}
          [] k \in {"Load", "Write"} -> {"DataAcknowledged", "DataNotAcknowledged"}
          [] k \in {"Dir", "New", "Del", "Change", "DirBank", "EndOfBank", "DelBank",
                    "MoveBank"} -> {"Info"}
          [] k \in {"Read", "ReadBank"} -> {"Write"}
          [] OTHER -> {}]

\* tuple(message._response_classes or [SysexMessage])
response_classes(message) ==
    IF ResponseClasses[message.kind] = {} THEN {"SysexMessage"}
    ELSE ResponseClasses[message.kind]

\* isinstance(decoded, response_classes): every class derives from SysexMessage
isinstance(decoded, classes) == "SysexMessage" \in classes \/ decoded.kind \in classes

\* a variant that rounds the quotient up
PollBudget_ceil(timeout) == Max(1, (timeout + 9) \div 10)

\* range(max(1, int(timeout / 0.01))): the number of passes of the loop
PollBudget(timeout) == Max(1, timeout \div 10)

\* a variant that writes the frame twice
send_message_twice(out, frame, id) ==
    out \o <<[frame |-> frame, call |-> id, answered |-> FALSE],
             [frame |-> frame, call |-> id, answered |-> FALSE]>>

\* self.midi_out.send_message(frame), by the call numbered id
send_message(out, frame, id) ==
    Append(out, [frame |-> frame, call |-> id, answered |-> FALSE])

TimeoutError(timeout) == [Exc("TimeoutError", "no response within the timeout")
                             EXCEPT !.num = timeout]

(***************************************************************************)
(* The transport and the device behind it, as the client's tests script    *)
(* them: replies to requests, and frames nobody asked for.  A buffered     *)
(* frame carries the number of the call it answers (0: none); the client   *)
(* never reads that number.                                                *)
(***************************************************************************)
Program == 132
\* DataNotAcknowledged.ErrorCode.ObjectNotFound
ObjectNotFound == 4
\* WriteMode.WriteToExactIDNumber
WriteToExactIDNumber == 0

\* the requests the callers make; the last one's idno does not fit 14 bits
Requests ==
    {[kind |-> "Dir", type |-> Program, idno |-> 1],
     [kind |-> "Dir", type |-> Program, idno |-> 2],
     [kind |-> "AllText"],
     [kind |-> "Dir", type |-> Program, idno |-> 2 ^ 14]}

\* the frame the device sends back for a request frame, as the proxy's
\* tests script it.  To DIR: an INFO frame that echoes the request's type
\* and idno septets, its size idno - 1 (so object 1 is empty), not in RAM,
\* name "Hi".  To DUMP: a LOAD frame that echoes them likewise (offset 0,
\* size 1, bit-stream form, the data byte 01 packed as 00 01, checksum 01).
\* To WRITE: for object 1 a DNAK frame with the code ObjectNotFound, else a
\* DACK frame; both echo the request's type, idno and size septets, with
\* offset 0.  To MOVEBANK: as its documentation has it, an ENDOFBANK frame
\* with the request's type septets and its new bank number.  To anything
\* else: the screen text "Hi".
DeviceAnswer(frame) ==
    LET message_type == frame[Len(K2_HEADER) + 1]
        idno == frame[8] * 128 + frame[9]
        size == Max(idno - 1, 0)
    IN  CASE message_type = MsgTypeInt.Dir ->
               K2_HEADER \o <<MsgTypeInt.Info>> \o SubSeq(frame, 6, 9)
                   \o <<size \div 16384, (size \div 128) % 128, size % 128>>
                   \o <<0, 72, 105, 0>> \o K2_FOOTER
          [] message_type = MsgTypeInt.Dump ->
               K2_HEADER \o <<MsgTypeInt.Load>> \o SubSeq(frame, 6, 9)
                   \o <<0, 0, 0, 0, 0, 1, BitStream, 0, 1, 1>> \o K2_FOOTER
          [] message_type = MsgTypeInt.Write /\ idno = 1 ->
               K2_HEADER \o <<MsgTypeInt.DataNotAcknowledged>> \o SubSeq(frame, 6, 9)
                   \o <<0, 0, 0>> \o SubSeq(frame, 10, 12) \o <<ObjectNotFound>> \o K2_FOOTER
          [] message_type = MsgTypeInt.Write /\ idno # 1 ->
               K2_HEADER \o <<MsgTypeInt.DataAcknowledged>> \o SubSeq(frame, 6, 9)
                   \o <<0, 0, 0>> \o SubSeq(frame, 10, 12) \o K2_FOOTER
          [] message_type = MsgTypeInt.MoveBank ->
               K2_HEADER \o <<MsgTypeInt.EndOfBank>> \o SubSeq(frame, 6, 7)
                   \o <<frame[9]>> \o K2_FOOTER
          [] OTHER ->
               K2_HEADER \o <<MsgTypeInt.ScreenReply>> \o <<72, 105, 0>> \o K2_FOOTER

\* b"1234": not a Kurzweil frame at all
Garbage == <<49, 50, 51, 52>>
\* Info(Program, 1, 123, False, "Bad").encode()[:-6] + K2_FOOTER: an INFO
\* frame cut short after its size field
HalfInfo == K2_HEADER \o <<MsgTypeInt.Info, 1, 4, 0, 1, 0, 0, 123>> \o K2_FOOTER
\* K2_HEADER + bytes([0x20]) + K2_FOOTER: a type byte the catalog lacks
UnknownType == K2_HEADER \o <<32>> \o K2_FOOTER

NoiseFrames == {Garbage, HalfInfo, UnknownType}

\* the device answers the oldest request it has not answered yet
DeviceReply ==
    /\ Len(inbound) < MaxInbound
    /\ \E k \in 1..Len(outbound) :
          /\ ~outbound[k].answered
          /\ \A j \in 1..(k - 1) : outbound[j].answered
          /\ outbound' = [outbound EXCEPT ![k].answered = TRUE]
          /\ inbound' = Append(inbound,
                 [frame |-> DeviceAnswer(outbound[k].frame), re |-> outbound[k].call])
    /\ UNCHANGED <<_TYPE_MAP, call, ncalls, proxy, varsCodec, varsFrame>>

\* a frame nobody asked for arrives
Noise ==
    /\ Len(inbound) < MaxInbound
    /\ \E f \in NoiseFrames : inbound' = Append(inbound, [frame |-> f, re |-> 0])
    /\ UNCHANGED <<_TYPE_MAP, outbound, call, ncalls, proxy, varsCodec, varsFrame>>

(***************************************************************************)
(* The call                                                                *)
(***************************************************************************)
IdleCall ==
    [pc |-> "idle", id |-> 0, message |-> NoMsg, timeout |-> 0, i |-> 0,
     exception |-> NoExc, result |-> NotYet, polled |-> <<>>]

\* op: the access under way; intkey: isinstance(key, int); value: what a
\* write assigns; reads: the accesses made so far
IdleProxy ==
    [pc |-> "idle", op |-> "none", intkey |-> TRUE, key |-> 0, value |-> NoMsg,
     reads |-> 0, info |-> NoMsg, result |-> NotYet]

\* the proxy is inside a dir(), dump() or write() call
ProxyBusy == proxy.pc \in {"dir", "dump", "write", "get_screen_text"}

ClientIdle ==
    /\ inbound = <<>>
    /\ outbound = <<>>
    /\ ncalls = 0
    /\ proxy = IdleProxy

\* a variant that returns whatever decodes, of any class
Handle_any_class(cl, response_data) ==
    IF has_valid_k2_headers(response_data)
    THEN LET Decoded(decoded) ==
                 IF decoded.ok
                 THEN [cl EXCEPT !.pc = "returned", !.result = decoded]
                 ELSE [cl EXCEPT !.exception = decoded.e]
         IN  Decoded(decode(response_data))
    ELSE cl

\* a variant that lets a decode error escape the loop at once
Handle_raise_at_once(cl, response_data) ==
    IF has_valid_k2_headers(response_data)
    THEN LET Decoded(decoded) ==
                 IF decoded.ok
                 THEN IF isinstance(decoded.v, response_classes(cl.message))
                      THEN [cl EXCEPT !.pc = "returned", !.result = decoded]
                      ELSE cl
                 ELSE [cl EXCEPT !.pc = "raised", !.result = decoded]
         IN  Decoded(decode(response_data))
    ELSE cl

\* a variant that keeps the first decode error instead of the latest
Handle_first_error(cl, response_data) ==
    IF has_valid_k2_headers(response_data)
    THEN LET Decoded(decoded) ==
                 IF decoded.ok
                 THEN IF isinstance(decoded.v, response_classes(cl.message))
                      THEN [cl EXCEPT !.pc = "returned", !.result = decoded]
                      ELSE cl
                 ELSE IF cl.exception = NoExc THEN [cl EXCEPT !.exception = decoded.e] ELSE cl
         IN  Decoded(decode(response_data))
    ELSE cl

\* a variant that also wants the reply to carry the request's idno
Handle_same_idno(cl, response_data) ==
    IF has_valid_k2_headers(response_data)
    THEN LET Decoded(decoded) ==
                 IF decoded.ok
                 THEN IF /\ isinstance(decoded.v, response_classes(cl.message))
                         /\ decoded.v.idno = cl.message.idno
                      THEN [cl EXCEPT !.pc = "returned", !.result = decoded]
                      ELSE cl
                 ELSE [cl EXCEPT !.exception = decoded.e]
         IN  Decoded(decode(response_data))
    ELSE cl

\* the loop body's handling of one polled frame: what the call becomes
Handle(cl, response_data) ==
    IF has_valid_k2_headers(response_data)
    THEN LET Decoded(decoded) ==
                 IF decoded.ok
                 THEN IF isinstance(decoded.v, response_classes(cl.message))
                      THEN [cl EXCEPT !.pc = "returned", !.result = decoded]
                      ELSE cl
                 ELSE [cl EXCEPT !.exception = decoded.e]
         IN  Decoded(decode(response_data))
    ELSE cl

\* the for loop's else clause, once the last pass found no match
Exhausted(cl) ==
    IF cl.pc = "polling" /\ cl.i = PollBudget(cl.timeout)
    THEN IF cl.exception # NoExc
         THEN [cl EXCEPT !.pc = "raised", !.result = Err(cl.exception)]
         ELSE [cl EXCEPT !.pc = "raised", !.result = Err(TimeoutError(cl.timeout))]
    ELSE cl

\* caller c enters _send_and_receive(message, timeout): encode, send
Enter(c, message, timeout) ==
    /\ call[c].pc # "polling"
    /\ ncalls' = ncalls + 1
    /\ LET cl == [IdleCall EXCEPT !.id = ncalls + 1, !.message = message,
                                  !.timeout = timeout]
           Send(frame) ==
               IF frame.ok
               THEN /\ outbound' = send_message(outbound, frame.v, ncalls + 1)
                    /\ call' = [call EXCEPT ![c] = [cl EXCEPT !.pc = "polling"]]
               ELSE /\ outbound' = outbound
                    /\ call' = [call EXCEPT ![c] = [cl EXCEPT !.pc = "raised", !.result = frame]]
       IN  Send(encode(message))
    /\ UNCHANGED <<_TYPE_MAP, inbound, varsCodec, varsFrame>>

\* a direct call of _send_and_receive, as dir() or get_screen_text() makes it
Start(c, message, timeout) ==
    /\ ncalls < MaxCalls
    /\ ~ProxyBusy
    /\ Enter(c, message, timeout)
    /\ UNCHANGED proxy

\* a variant whose get_message leaves the frame in the queue
Poll_peek(c) ==
    /\ call[c].pc = "polling"
    /\ call[c].i < PollBudget(call[c].timeout)
    /\ LET cl == [call[c] EXCEPT !.i = @ + 1]
       IN  IF inbound = <<>>
           THEN call' = [call EXCEPT ![c] = Exhausted(cl)]
           ELSE call' = [call EXCEPT ![c] =
                        Exhausted(Handle([cl EXCEPT !.polled = Append(@, Head(inbound))],
                                         Head(inbound).frame))]
    /\ UNCHANGED <<_TYPE_MAP, inbound, outbound, ncalls, proxy, varsCodec, varsFrame>>

\* one pass of caller c's loop: get_message, the frame's handling, sleep
Poll(c) ==
    /\ call[c].pc = "polling"
    /\ call[c].i < PollBudget(call[c].timeout)
    /\ LET cl == [call[c] EXCEPT !.i = @ + 1]
       IN  IF inbound = <<>>
           THEN /\ call' = [call EXCEPT ![c] = Exhausted(cl)]
                /\ inbound' = inbound
           ELSE /\ call' = [call EXCEPT ![c] =
                        Exhausted(Handle([cl EXCEPT !.polled = Append(@, Head(inbound))],
                                         Head(inbound).frame))]
                /\ inbound' = Tail(inbound)
    /\ UNCHANGED <<_TYPE_MAP, outbound, ncalls, proxy, varsCodec, varsFrame>>

(***************************************************************************)
(* k2000/client.py: K2BaseClient.dir and dump, K2ObjectProxy.__getitem__   *)
(***************************************************************************)
\* most accesses to the proxy (__getitem__ and __setitem__ calls) in one
\* behaviour
MaxReads == 1

\* timeout: float = 1.0, in milliseconds
DefaultTimeout == 1000

\* the integer keys the proxy is accessed at: both sides of each end of its
\* range, and the key after the first
Keys == {0, 1, 2, 1000, 1001}

\* dir(type, idno): _send_and_receive(Dir(type, idno))
dir(c, type, idno) ==
    Enter(c, [kind |-> "Dir", type |-> type, idno |-> idno], DefaultTimeout)

\* dump(type, idno): _send_and_receive(Dump(type, idno, 0, 2**21 - 1, BitStream))
dump(c, type, idno) ==
    Enter(c, [kind |-> "Dump", type |-> type, idno |-> idno, offset |-> 0,
              size |-> 2 ^ 21 - 1, form |-> BitStream], DefaultTimeout)

\* "if key > 1000 or key < 1"
KeyRejected(key) == key > 1000 \/ key < 1

\* a variant that takes every object to hold data
HasData_always(info) == TRUE

\* "if info.size != 0"
HasData(info) == info.size # 0

\* caller c enters proxy[key] for the proxy of Program objects: the key
\* check, then dir()
GetItem(c, key) ==
    /\ ~ProxyBusy
    /\ proxy.reads < MaxReads
    /\ LET p == [IdleProxy EXCEPT !.op = "getitem", !.key = key,
                                  !.reads = proxy.reads + 1]
       IN  IF KeyRejected(key)
           THEN /\ call[c].pc # "polling"
                /\ proxy' = [p EXCEPT !.pc = "raised",
                                      !.result = Raise("ValueError", "ID number out of range")]
                /\ UNCHANGED <<_TYPE_MAP, inbound, outbound, call, ncalls, varsCodec, varsFrame>>
           ELSE /\ dir(c, Program, key)
                /\ proxy' = [p EXCEPT !.pc = "dir"]

\* proxy[key] goes on once the call it waits for has ended: an exception
\* passes through; after dir() the size test and dump(); after dump() the
\* return of (info.name, load.data)
GetItemResume(c) ==
    /\ proxy.op = "getitem"
    /\ proxy.pc \in {"dir", "dump"}
    /\ call[c].pc \in {"returned", "raised"}
    /\ IF call[c].pc = "raised"
       THEN /\ proxy' = [proxy EXCEPT !.pc = "raised", !.result = call[c].result]
            /\ UNCHANGED <<_TYPE_MAP, inbound, outbound, call, ncalls, varsCodec, varsFrame>>
       ELSE IF proxy.pc = "dir"
       THEN LET info == call[c].result.v
            IN  IF HasData(info)
                THEN /\ dump(c, Program, proxy.key)
                     /\ proxy' = [proxy EXCEPT !.pc = "dump", !.info = info]
                ELSE /\ proxy' = [proxy EXCEPT !.pc = "returned", !.info = info,
                                               !.result = Ok([kind |-> "None"])]
                     /\ UNCHANGED <<_TYPE_MAP, inbound, outbound, call, ncalls, varsCodec, varsFrame>>
       ELSE /\ proxy' = [proxy EXCEPT !.pc = "returned",
                            !.result = Ok([kind |-> "tuple", name |-> proxy.info.name,
                                           data |-> call[c].result.v.data])]
            /\ UNCHANGED <<_TYPE_MAP, inbound, outbound, call, ncalls, varsCodec, varsFrame>>

(***************************************************************************)
(* k2000/client.py: K2BaseClient.write, K2ObjectProxy.__setitem__, and the *)
(* isinstance checks both accesses start with                              *)
(***************************************************************************)
\* what is assigned to proxy[key]: ("Hi", b"\x01"); ("\xe9", b""), whose
\* name is no ASCII; and "Foo", which is no tuple
Values ==
    {[kind |-> "tuple", name |-> <<72, 105>>, data |-> <<1>>],
     [kind |-> "tuple", name |-> <<233>>, data |-> <<>>],
     [kind |-> "str"]}

\* write(type, idno, name, data):
\* _send_and_receive(Write(type, idno, WriteToExactIDNumber, name, BitStream, data))
write(c, type, idno, name, data) ==
    Enter(c, [kind |-> "Write", type |-> type, idno |-> idno, mode |-> WriteToExactIDNumber,
              name |-> name, form |-> BitStream, data |-> data], DefaultTimeout)

\* isinstance(value, tuple) and len(value) == 2 and isinstance(value[0], str)
\* and isinstance(value[1], bytes)
IsNameAndData(value) == value.kind = "tuple"

\* a variant that forgets the code
RuntimeError_nocode(code) == Exc("RuntimeError", "could not set")

\* RuntimeError(f"Could not set {self.type} ID {key}: {response.code.name}")
RuntimeError(code) == [Exc("RuntimeError", "could not set") EXCEPT !.num = code]

\* caller c enters proxy[key] with a key that is no integer
GetItemNonInt(c) ==
    /\ ~ProxyBusy
    /\ proxy.reads < MaxReads
    /\ call[c].pc # "polling"
    /\ proxy' = [IdleProxy EXCEPT !.op = "getitem", !.intkey = FALSE,
                                  !.reads = proxy.reads + 1, !.pc = "raised",
                                  !.result = Raise("TypeError", "Key must be an integer")]
    /\ UNCHANGED <<_TYPE_MAP, inbound, outbound, call, ncalls, varsCodec, varsFrame>>

\* caller c enters proxy[key] = value with a key that is no integer
SetItemNonInt(c, value) ==
    /\ ~ProxyBusy
    /\ proxy.reads < MaxReads
    /\ call[c].pc # "polling"
    /\ proxy' = [IdleProxy EXCEPT !.op = "setitem", !.intkey = FALSE, !.value = value,
                                  !.reads = proxy.reads + 1, !.pc = "raised",
                                  !.result = Raise("TypeError", "Key must be an integer")]
    /\ UNCHANGED <<_TYPE_MAP, inbound, outbound, call, ncalls, varsCodec, varsFrame>>

\* caller c enters proxy[key] = value for the proxy of Program objects: the
\* key check, the value check, then write()
SetItem(c, key, value) ==
    /\ ~ProxyBusy
    /\ proxy.reads < MaxReads
    /\ LET p == [IdleProxy EXCEPT !.op = "setitem", !.key = key, !.value = value,
                                  !.reads = proxy.reads + 1]
       IN  IF KeyRejected(key)
           THEN /\ call[c].pc # "polling"
                /\ proxy' = [p EXCEPT !.pc = "raised",
                                      !.result = Raise("ValueError", "ID number out of range")]
                /\ UNCHANGED <<_TYPE_MAP, inbound, outbound, call, ncalls, varsCodec, varsFrame>>
           ELSE IF ~IsNameAndData(value)
           THEN /\ call[c].pc # "polling"
                /\ proxy' = [p EXCEPT !.pc = "raised",
                                      !.result = Raise("TypeError", "Value must be a tuple")]
                /\ UNCHANGED <<_TYPE_MAP, inbound, outbound, call, ncalls, varsCodec, varsFrame>>
           ELSE /\ write(c, Program, key, value.name, value.data)
                /\ proxy' = [p EXCEPT !.pc = "write"]

\* proxy[key] = value goes on once write() has ended: an exception passes
\* through, a DataNotAcknowledged response raises, anything else returns
SetItemResume(c) ==
    /\ proxy.op = "setitem"
    /\ proxy.pc = "write"
    /\ call[c].pc \in {"returned", "raised"}
    /\ IF call[c].pc = "raised"
       THEN proxy' = [proxy EXCEPT !.pc = "raised", !.result = call[c].result]
       ELSE LET response == call[c].result.v
            IN  IF response.kind = "DataNotAcknowledged"
                THEN proxy' = [proxy EXCEPT !.pc = "raised",
                                            !.result = Err(RuntimeError(response.code))]
                ELSE proxy' = [proxy EXCEPT !.pc = "returned",
                                            !.result = Ok([kind |-> "None"])]
    /\ UNCHANGED <<_TYPE_MAP, inbound, outbound, call, ncalls, varsCodec, varsFrame>>

(***************************************************************************)
(* Specifications                                                          *)
(***************************************************************************)
Next ==
    \/ \E c \in DOMAIN call, m \in Requests, t \in Timeouts : Start(c, m, t)
    \/ \E c \in DOMAIN call : Poll(c)
    \/ DeviceReply
    \/ Noise

\* one caller, its transactions one after the other
Init == ClientIdle /\ call = [c \in {1} |-> IdleCall] /\ CodecIdle /\ FrameIdle /\ Imported

Spec == Init /\ [][Next]_vars

\* two callers (threads) sharing the client and its transport
InitConcurrent == ClientIdle /\ call = [c \in {1, 2} |-> IdleCall] /\ CodecIdle /\ FrameIdle /\ Imported

\* the device only answers: nothing unsolicited arrives
NextConcurrent ==
    \/ \E c \in DOMAIN call, m \in Requests, t \in Timeouts : Start(c, m, t)
    \/ \E c \in DOMAIN call : Poll(c)
    \/ DeviceReply

SpecConcurrent == InitConcurrent /\ [][NextConcurrent]_vars

\* one caller that reads the object proxy, after direct dir() calls or
\* without any; the device only answers
NextProxy ==
    \/ \E c \in DOMAIN call, t \in Timeouts :
          Start(c, [kind |-> "Dir", type |-> Program, idno |-> 1], t)
    \/ \E c \in DOMAIN call, key \in Keys : GetItem(c, key)
    \/ \E c \in DOMAIN call : GetItemResume(c)
    \/ \E c \in DOMAIN call : Poll(c)
    \/ DeviceReply

SpecProxy == Init /\ [][NextProxy]_vars

\* one caller that reads and writes the object proxy; the device only answers
NextProxyRW ==
    \/ \E c \in DOMAIN call, key \in Keys : GetItem(c, key)
    \/ \E c \in DOMAIN call : GetItemNonInt(c)
    \/ \E c \in DOMAIN call : GetItemResume(c)
    \/ \E c \in DOMAIN call, key \in Keys, value \in Values : SetItem(c, key, value)
    \/ \E c \in DOMAIN call, value \in Values : SetItemNonInt(c, value)
    \/ \E c \in DOMAIN call : SetItemResume(c)
    \/ \E c \in DOMAIN call : Poll(c)
    \/ DeviceReply

SpecProxyRW == Init /\ [][NextProxyRW]_vars

\* a call is inside its loop; Poll is enabled exactly then, for the loop is
\* left as soon as the budget is used up
PollPending == \E c \in DOMAIN call : call[c].pc = "polling"

\* the single caller again, under weak fairness of the loop's passes
\* (get_message does not block and sleep returns): WF_vars(Poll) written
\* out, with Poll's enabling condition stated as PollPending
SpecLive ==
    Spec /\ ([]<>(~PollPending) \/ []<><<\E c \in DOMAIN call : Poll(c)>>_vars)

InitCodec ==
    /\ ClientIdle
    /\ call = <<>>
    /\ FrameIdle /\ Imported
    /\ msg \in Messages
    /\ wire = NotYet
    /\ back = NotYet
    /\ stage = "new"

NextCodec == CodecEncode \/ CodecDecode

\* every message of the catalog encoded, then decoded
SpecCodec == InitCodec /\ [][NextCodec]_vars

InitFrame == ClientIdle /\ call = <<>> /\ CodecIdle /\ FrameIdle /\ Imported

NextFrame == FrameAppend \/ FrameValidate

\* raw buffers grown byte by byte and screened by has_valid_k2_headers
SpecFrame == InitFrame /\ [][NextFrame]_vars

(***************************************************************************)
(* Raw buffers handed to SysexMessage.decode, as the tests of bad packets  *)
(* build them: each header position holds the header's byte or another,    *)
(* and what follows is drawn from type bytes of the catalog (DIR, whose    *)
(* body needs four bytes; LOADMACRO, whose body is empty; SCREENREPLY,     *)
(* whose body is any bytes), type bytes the catalog lacks, and the footer. *)
(***************************************************************************)
DecodeBytesAt(pos) ==
    IF pos <= Len(K2_HEADER) THEN {K2_HEADER[pos], 1}
    ELSE {MsgTypeInt.Dir, MsgTypeInt.LoadMacro, MsgTypeInt.ScreenReply, 18, 32, 247}

\* one more byte of the buffer under construction
DecodeAppend ==
    /\ Len(buf) < MaxBufLen
    /\ \E b \in DecodeBytesAt(Len(buf) + 1) : buf' = Append(buf, b)
    /\ checked' = FALSE
    /\ back' = NotYet
    /\ UNCHANGED <<_TYPE_MAP, valid, msg, wire, stage, varsClient>>

\* SysexMessage.decode(buf)
FrameDecode ==
    /\ ~checked
    /\ back' = decode(buf)
    /\ checked' = TRUE
    /\ UNCHANGED <<_TYPE_MAP, buf, valid, msg, wire, stage, varsClient>>

NextDecode == DecodeAppend \/ FrameDecode

\* raw buffers grown byte by byte and handed to SysexMessage.decode
SpecDecode == InitFrame /\ [][NextDecode]_vars

(***************************************************************************)
(* Corrupted frames, as test_roundtrip_bad_checksum makes them: a Load or  *)
(* Write message is encoded, one byte near the end of its frame (the       *)
(* checksum byte, or one of the bytes before it) is replaced by another    *)
(* value, and the result is decoded.  buf holds the corrupted frame.       *)
(***************************************************************************)
\* the Load and Write messages of Program objects
ChecksumMessages ==
    {m \in Messages : m.kind \in {"Load", "Write"} /\ m.type = Program
                         /\ (m.kind = "Load" => m.offset # 128)}

\* how far before the footer the replaced byte lies: the checksum byte is 1
\* before it, and the packed data of MaxDataLen bytes the 2 * MaxDataLen
\* bytes before that, at most
CorruptOffsets == 1..(2 * MaxDataLen + 1)

\* the values a byte is replaced by
CorruptBytes(old) == {0, 127, 128, (old + 1) % 256} \ {old}

\* encoded[-k] = b
CodecCorrupt ==
    /\ stage = "encoded"
    /\ wire.ok
    /\ \E k \in CorruptOffsets :
          LET p == Len(wire.v) - k
          IN  /\ p > Len(K2_HEADER) + 1
              /\ \E b \in CorruptBytes(wire.v[p]) : buf' = [wire.v EXCEPT ![p] = b]
    /\ stage' = "corrupted"
    /\ UNCHANGED <<_TYPE_MAP, msg, wire, back, checked, valid, varsClient>>

\* klass.decode(bytes(encoded))
CodecDecodeCorrupted ==
    /\ stage = "corrupted"
    /\ back' = decode(buf)
    /\ stage' = "refused or decoded"
    /\ UNCHANGED <<_TYPE_MAP, msg, wire, buf, checked, valid, varsClient>>

InitChecksum ==
    /\ ClientIdle
    /\ call = <<>>
    /\ FrameIdle /\ Imported
    /\ msg \in ChecksumMessages
    /\ wire = NotYet
    /\ back = NotYet
    /\ stage = "new"

NextChecksum == CodecEncode \/ CodecCorrupt \/ CodecDecodeCorrupted

\* Load and Write messages encoded, corrupted in one byte, then decoded
SpecChecksum == InitChecksum /\ [][NextChecksum]_vars

(***************************************************************************)
(* k2000/encoding.py exercised as tests/test_encoding.py does: encode_n    *)
(* applied to an integer or a byte string, its result handed to decode_n;  *)
(* and decode_n applied to a byte string as it stands.  msg holds the      *)
(* arguments, wire what encode_n gives and back what decode_n gives.       *)
(***************************************************************************)
\* encode = {i: partial(encode_n, n=i) for i in range(1, 8)}
Widths == 1..7

\* integers around both ends of what num_bytes n-bit bytes hold, and around
\* the steps from one byte to the next
PackInts(num_bytes, n) ==
    ((0 - 2)..17) \cup {127, 128, 129}
    \cup {2 ^ (n * k) + d : k \in 1..num_bytes, d \in {0 - 1, 0, 1}}
    \cup {2 ^ (n * num_bytes) + 2 ^ n - 1}

\* bytes with and without bits at or above the nth
UnpackBytes(n) == {0, 1, 2 ^ n - 1, 2 ^ n, 85, 255}

PackInputs ==
    {[kind |-> "encode_n", value |-> IntV(v), num_bytes |-> k, n |-> n] :
        v \in UNION {PackInts(kk, nn) : kk \in 1..MaxNumBytes, nn \in Widths},
        k \in 1..MaxNumBytes, n \in Widths}
    \cup {[kind |-> "encode_n", value |-> BytesV(b), num_bytes |-> k, n |-> n] :
             b \in Datas, k \in 1..MaxNumBytes, n \in Widths}

UnpackInputs ==
    UNION {{[kind |-> "decode_n", value |-> b, n |-> n] :
               b \in SeqsUpTo(UnpackBytes(n), MaxNumBytes)} : n \in Widths}

\* encode[n](value, num_bytes)
PackEncode ==
    /\ stage = "new"
    /\ msg.kind = "encode_n"
    /\ wire' = encode_n(msg.value, msg.num_bytes, msg.n)
    /\ stage' = "encoded"
    /\ UNCHANGED <<_TYPE_MAP, msg, back, varsClient, varsFrame>>

\* decode[n](encode[n](value, num_bytes))
PackDecode ==
    /\ stage = "encoded"
    /\ msg.kind = "encode_n"
    /\ wire.ok
    /\ back' = decode_n(wire.v, msg.n)
    /\ stage' = "decoded"
    /\ UNCHANGED <<_TYPE_MAP, msg, wire, varsClient, varsFrame>>

\* decode[n](value)
Unpack ==
    /\ stage = "new"
    /\ msg.kind = "decode_n"
    /\ back' = decode_n(msg.value, msg.n)
    /\ stage' = "decoded"
    /\ UNCHANGED <<_TYPE_MAP, msg, wire, varsClient, varsFrame>>

InitPack ==
    /\ ClientIdle
    /\ call = <<>>
    /\ FrameIdle /\ Imported
    /\ msg \in PackInputs \cup UnpackInputs
    /\ wire = NotYet
    /\ back = NotYet
    /\ stage = "new"

NextPack == PackEncode \/ PackDecode \/ Unpack

\* the bit packer on integers, byte strings and packed bytes
SpecPack == InitPack /\ [][NextPack]_vars

(***************************************************************************)
(* k2000/messages.py: ScreenReply.__str__ and ScreenReply.to_pixel_array.  *)
(* A str is the sequence of its characters' code points.  msg holds the    *)
(* ScreenReply and back what the conversion gives.                         *)
(***************************************************************************)
_screen_dims == <<240, 64>>
_character_dims == <<6, 8>>
\* "if len(self.data) == 321"
TextSize == 321
\* "elif len(self.data) == 2561"
GraphicsSize == 2561

\* grouper(data, n): the fixed-length chunks of data, the last one filled up
\* with None, here 0, which the callers drop or never meet
grouper(data, n) ==
    [k \in 1..((Len(data) + n - 1) \div n) |->
        [i \in 1..n |-> IF n * (k - 1) + i <= Len(data) THEN data[n * (k - 1) + i] ELSE 0]]

\* "\n".join(parts)
RECURSIVE join(_)
join(parts) ==
    IF parts = <<>> THEN <<>>
    ELSE IF Len(parts) = 1 THEN parts[1]
    ELSE join(SubSeq(parts, 1, Len(parts) - 1)) \o <<10>> \o parts[Len(parts)]

\* data.rstrip(b"\x00")
rstrip(data) ==
    LET n == CHOOSE k \in 0..Len(data) :
                 /\ k = 0 \/ data[k] # 0
                 /\ \A j \in (k + 1)..Len(data) : data[j] = 0
    IN  SubSeq(data, 1, n)

\* a variant that takes image data for a string as well
ScreenReply_str_any(data) ==
    IF Len(data) = TextSize
    THEN LET width_in_chars == _screen_dims[1] \div _character_dims[1]
             lines == grouper(PySliceTo(data, 0 - 1), width_in_chars)
         IN  Ok(join([k \in 1..Len(lines) |-> SelectSeq(lines[k], LAMBDA x : x # 0)]))
    ELSE AsciiDecode(rstrip(data))

\* ScreenReply.__str__
ScreenReply_str(data) ==
    IF Len(data) = TextSize
    THEN LET width_in_chars == _screen_dims[1] \div _character_dims[1]
             lines == grouper(PySliceTo(data, 0 - 1), width_in_chars)
         IN  Ok(join([k \in 1..Len(lines) |-> SelectSeq(lines[k], LAMBDA x : x # 0)]))
    ELSE IF Len(data) = GraphicsSize
    THEN Raise("TypeError", "image data cannot be converted to str")
    ELSE AsciiDecode(rstrip(data))

\* ScreenReply.to_pixel_array: six pixels a byte, least significant bit
\* first, in rows of _screen_dims[0], transposed and scaled to 0 / 255
to_pixel_array(data) ==
    IF Len(data) # GraphicsSize
    THEN Raise("TypeError", "string data cannot be converted to image")
    ELSE LET sixes == PySliceTo(data, 0 - 1)
             pixel(k) == (sixes[(k \div 6) + 1] \div (2 ^ (k % 6))) % 2
         IN  Ok([x \in 1.._screen_dims[1] |->
                    [y \in 1..((6 * Len(sixes)) \div _screen_dims[1]) |->
                        255 * pixel((y - 1) * _screen_dims[1] + (x - 1))]])

\* the payload lengths: the shortest ones, and the two the code singles out
\* with their neighbours
ScreenLengths ==
    (0..MaxDataLen) \cup {TextSize + d : d \in {0 - 1, 0, 1}}
                    \cup {GraphicsSize + d : d \in {0 - 1, 0, 1}}

\* payloads of length n: one byte all over (NUL, space, "A", a byte that is
\* no ASCII), and "A" with NULs inside and at the end
ScreenPayloads(n) ==
    {[i \in 1..n |-> b] : b \in {0, 32, 65, 200}}
    \cup {[i \in 1..n |-> IF i % 7 = 3 \/ i > n - 2 THEN 0 ELSE 65],
          [i \in 1..n |-> IF i = 1 THEN 0 ELSE IF i = 2 THEN 200 ELSE 33]}

\* str(ScreenReply(data))
ScreenStr ==
    /\ stage = "new"
    /\ msg.kind = "ScreenReply"
    /\ back' = ScreenReply_str(msg.data)
    /\ stage' = "str"
    /\ UNCHANGED <<_TYPE_MAP, msg, wire, varsClient, varsFrame>>

\* ScreenReply(data).to_pixel_array()
ScreenPixels ==
    /\ stage = "new"
    /\ msg.kind = "ScreenReply"
    /\ back' = to_pixel_array(msg.data)
    /\ stage' = "pixels"
    /\ UNCHANGED <<_TYPE_MAP, msg, wire, varsClient, varsFrame>>

InitScreen ==
    /\ ClientIdle
    /\ call = <<>>
    /\ FrameIdle /\ Imported
    /\ msg \in {[kind |-> "ScreenReply", data |-> d] :
                   d \in UNION {ScreenPayloads(n) : n \in ScreenLengths}}
    /\ wire = NotYet
    /\ back = NotYet
    /\ stage = "new"

NextScreen == ScreenStr \/ ScreenPixels

\* screen payloads of every kind of length, converted either way
SpecScreen == InitScreen /\ [][NextScreen]_vars

(***************************************************************************)
(* k2000/messages.py: ScreenReply.from_screen_contents and                 *)
(* ScreenReply.from_pixel_array.  A pixel array is the sequence of its     *)
(* rows, each a sequence of booleans.  msg holds the string or the array,  *)
(* wire the ScreenReply built from it, back what the reply converts to.    *)
(***************************************************************************)
\* string.ljust(width)
ljust(string, width) ==
    IF Len(string) >= width THEN string
    ELSE string \o [i \in 1..(width - Len(string)) |-> 32]

\* ScreenReply.from_screen_contents
from_screen_contents(string) ==
    LET encoded == AsciiEncode(ljust(string, 320))
    IN  IF encoded.ok
        THEN Ok([kind |-> "ScreenReply", data |-> encoded.v \o <<0>>])
        ELSE encoded

\* pixels.shape
shape(pixels) == <<Len(pixels), IF Len(pixels) = 0 THEN 0 ELSE Len(pixels[1])>>

\* pixels.flatten(): row-major
flatten(pixels) ==
    LET cols == shape(pixels)[2]
    IN  [k \in 1..(Len(pixels) * cols) |-> pixels[((k - 1) \div cols) + 1][((k - 1) % cols) + 1]]

\* reversed(group)
reversed(s) == [i \in 1..Len(s) |-> s[Len(s) + 1 - i]]

\* int(binary_string, 2), the string given as its digits
RECURSIVE int2(_)
int2(digits) ==
    IF digits = <<>> THEN 0
    ELSE 2 * int2(SubSeq(digits, 1, Len(digits) - 1)) + digits[Len(digits)]

\* ScreenReply.from_pixel_array
from_pixel_array(pixels) ==
    IF shape(pixels) # _screen_dims
    THEN Raise("ValueError", "Provided pixel data must be of shape (240, 64)")
    ELSE LET groups == grouper(flatten(pixels), 6)
             encoded_data == [g \in 1..Len(groups) |->
                                 int2([j \in 1..6 |-> IF reversed(groups[g])[j] = TRUE THEN 1 ELSE 0])]
         IN  Ok([kind |-> "ScreenReply", data |-> encoded_data \o <<0>>])

\* the strings given as screen contents: "Hello, world!", and strings of one
\* character (space, "A", e acute) as long as nothing, one character, a row,
\* the grid and its neighbours, and an image's payload
ScreenStrings ==
    {<<72, 101, 108, 108, 111, 44, 32, 119, 111, 114, 108, 100, 33>>}
    \cup {[i \in 1..n |-> ch] : n \in {0, 1, 40, 319, 320, 321, 2560}, ch \in {32, 65, 233}}

\* a rows x cols array with the pixels of lit set
PixelArray(rows, cols, lit) ==
    [r \in 1..rows |-> [c \in 1..cols |-> <<r, c>> \in lit]]

\* the pixel arrays: of the screen's shape, with no pixel set, one pixel set
\* at a corner or next to one, every other row or column set, or all set;
\* and arrays of another shape
PixelArrays ==
    {PixelArray(240, 64, lit) :
        lit \in {{}, {<<1, 1>>}, {<<1, 2>>}, {<<2, 1>>}, {<<1, 64>>}, {<<240, 1>>},
                 {<<240, 64>>}, {<<120, 32>>, <<7, 3>>},
                 {<<r, c>> \in (1..240) \X (1..64) : r % 2 = 0},
                 {<<r, c>> \in (1..240) \X (1..64) : c % 2 = 0},
                 (1..240) \X (1..64)}}
    \cup {PixelArray(250, 65, {}), PixelArray(64, 240, {<<1, 1>>}), PixelArray(0, 0, {})}

\* ScreenReply.from_screen_contents(string)
FromScreenContents ==
    /\ stage = "new"
    /\ msg.kind = "str"
    /\ wire' = from_screen_contents(msg.value)
    /\ stage' = "built"
    /\ UNCHANGED <<_TYPE_MAP, msg, back, varsClient, varsFrame>>

\* ScreenReply.from_pixel_array(pixels)
FromPixelArray ==
    /\ stage = "new"
    /\ msg.kind = "ndarray"
    /\ wire' = from_pixel_array(msg.value)
    /\ stage' = "built"
    /\ UNCHANGED <<_TYPE_MAP, msg, back, varsClient, varsFrame>>

\* str() of the ScreenReply built
BuiltStr ==
    /\ stage = "built"
    /\ wire.ok
    /\ back' = ScreenReply_str(wire.v.data)
    /\ stage' = "str"
    /\ UNCHANGED <<_TYPE_MAP, msg, wire, varsClient, varsFrame>>

\* to_pixel_array() of the ScreenReply built
BuiltPixels ==
    /\ stage = "built"
    /\ wire.ok
    /\ back' = to_pixel_array(wire.v.data)
    /\ stage' = "pixels"
    /\ UNCHANGED <<_TYPE_MAP, msg, wire, varsClient, varsFrame>>

InitBuild ==
    /\ ClientIdle
    /\ call = <<>>
    /\ FrameIdle /\ Imported
    /\ msg \in {[kind |-> "str", value |-> s] : s \in ScreenStrings}
               \cup {[kind |-> "ndarray", value |-> p] : p \in PixelArrays}
    /\ wire = NotYet
    /\ back = NotYet
    /\ stage = "new"

NextBuild == FromScreenContents \/ FromPixelArray \/ BuiltStr \/ BuiltPixels

\* screen replies built from strings and pixel arrays, then converted
SpecBuild == InitBuild /\ [][NextBuild]_vars

(***************************************************************************)
(* k2000/messages.py: the module's closing loop, which fills _TYPE_MAP,    *)
(* and the codec used once the module is imported.  While the loop runs,   *)
(* msg holds the classes it has yet to visit.                              *)
(***************************************************************************)
\* one pass of "for cls in __ALL_MESSAGE_TYPES": the class is registered
\* under its type byte (every class of the catalog has one)
Register ==
    /\ stage = "import"
    /\ msg.pending # <<>>
    /\ _TYPE_MAP' = Registered(_TYPE_MAP, Head(msg.pending))
    /\ msg' = [msg EXCEPT !.pending = Tail(@)]
    /\ UNCHANGED <<wire, back, stage, varsClient, varsFrame>>

\* the loop is over; a message is built to be encoded
RegistryUse ==
    /\ stage = "import"
    /\ msg.pending = <<>>
    /\ msg' \in Messages
    /\ stage' = "new"
    /\ UNCHANGED <<_TYPE_MAP, wire, back, varsClient, varsFrame>>

InitRegistry ==
    /\ ClientIdle
    /\ call = <<>>
    /\ FrameIdle
    /\ _TYPE_MAP = <<>>
    /\ msg = [kind |-> "module", pending |-> __ALL_MESSAGE_TYPES]
    /\ wire = NotYet
    /\ back = NotYet
    /\ stage = "import"

NextRegistry == Register \/ RegistryUse \/ CodecEncode \/ CodecDecode

\* the import of k2000.messages, then every message of the catalog encoded
\* and decoded
SpecRegistry == InitRegistry /\ [][NextRegistry]_vars

(***************************************************************************)
(* Frames with well-formed markers whose body is grown byte by byte, for   *)
(* the variants with a fixed field layout: bodies that stop short of the   *)
(* layout, fill it, or run past it into a name, a payload and a checksum.  *)
(* buf holds the header, the type byte and the body so far; the frame      *)
(* decoded is buf with the footer.                                         *)
(***************************************************************************)
\* most bytes of a body after the fixed-width fields
MaxTail == 5

\* the variants, each with the number of bytes of its fixed-width fields
\* that come first: type(2) idno(2), then offset(3) size(3) form(1) for Dump
\* and Load, size(3) flag(1) for Info, New and Write, newid(2) for Change
FixedLen ==
    [Dir |-> 4, Del |-> 4, Dump |-> 11, Load |-> 11, Info |-> 8, New |-> 8, Change |-> 6, Write |-> 8]

\* the variant a buffer under construction is a frame of
BodyKind(b) == _TYPE_MAP[b[Len(K2_HEADER) + 1]]

\* the body a buffer under construction holds so far
BodyOf(b) == SubSeq(b, Len(K2_HEADER) + 2, Len(b))

\* the bytes a body may hold at position pos (from 1): the object type is
\* Program as two septets, or the one byte of a type below 128; the idno is
\* 1; the size's low septet is at most 2; a flag, mode or form is 0 or 1;
\* other septets of the fixed fields are 0; the bytes after them are NUL,
\* 1 or "A"
BodyBytesAt(kind, pos) ==
    IF pos > FixedLen[kind] THEN {0, 1, 65}
    ELSE IF pos = 1 THEN {1, 104}
    ELSE IF pos = 2 THEN {4}
    ELSE IF pos = 4 THEN {1}
    ELSE IF pos = FixedLen[kind] /\ pos > 6 THEN {0, 1}
    ELSE IF pos = FixedLen[kind] - 1 /\ pos > 6 THEN {0, 1, 2}
    ELSE {0}

\* one more byte of the body under construction
BodyAppend ==
    /\ Len(BodyOf(buf)) < FixedLen[BodyKind(buf)] + MaxTail
    /\ \E b \in BodyBytesAt(BodyKind(buf), Len(BodyOf(buf)) + 1) : buf' = Append(buf, b)
    /\ checked' = FALSE
    /\ back' = NotYet
    /\ UNCHANGED <<_TYPE_MAP, valid, msg, wire, stage, varsClient>>

\* SysexMessage.decode(buf + K2_FOOTER)
BodyDecode ==
    /\ ~checked
    /\ back' = decode(buf \o K2_FOOTER)
    /\ checked' = TRUE
    /\ UNCHANGED <<_TYPE_MAP, buf, valid, msg, wire, stage, varsClient>>

InitBody ==
    /\ ClientIdle
    /\ call = <<>>
    /\ CodecIdle
    /\ Imported
    /\ buf \in {K2_HEADER \o <<MsgTypeInt[k]>> : k \in DOMAIN FixedLen}
    /\ checked = FALSE
    /\ valid = FALSE

NextBody == BodyAppend \/ BodyDecode

\* frames of the fixed-layout variants with bodies of every length up to the
\* layout's and MaxTail bytes more
SpecBody == InitBody /\ [][NextBody]_vars

(***************************************************************************)
(* k2000/client.py: K2BaseClient.press_buttons.  msg holds the buttons the *)
(* last call was given.                                                    *)
(***************************************************************************)
\* ButtonEventType.Up and ButtonEventType.Down
Up == 8
Down == 9

\* longest list of buttons given to press_buttons
MaxButtons == 4

\* the buttons pressed: the digits 1 and 0 and the +/- button, as number()
\* presses them
PressedButtons == {1, 0, 10}

\* ButtonEvent(event_type, button)
ButtonEvent(event_type, button) ==
    [event_type |-> event_type, button |-> button, alpha_wheel_clicks |-> 0]

\* a variant that releases every button at once, as press() does
press_buttons_events_each(buttons) ==
    LET RECURSIVE Loop(_)
        Loop(i) ==
            IF i > Len(buttons) THEN <<>>
            ELSE <<ButtonEvent(Down, buttons[i]), ButtonEvent(Up, buttons[i])>> \o Loop(i + 1)
    IN  Loop(1)

\* the events press_buttons collects: its loop over
\* zip(buttons, buttons[1:] + [None]), None being no button (-1)
press_buttons_events(buttons) ==
    LET nexts == PySliceFrom(buttons, 1) \o <<0 - 1>>
        RECURSIVE Loop(_)
        Loop(i) ==
            IF i > Min(Len(buttons), Len(nexts)) THEN <<>>
            ELSE <<ButtonEvent(Down, buttons[i])>>
                 \o (IF buttons[i] # nexts[i] THEN <<ButtonEvent(Up, buttons[i])>> ELSE <<>>)
                 \o Loop(i + 1)
    IN  Loop(1)

\* press_buttons(buttons): the events, then one send_message of the Panel
\* message holding them
press_buttons(buttons) ==
    /\ outbound = <<>>
    /\ LET Send(frame) ==
               IF frame.ok THEN outbound' = send_message(outbound, frame.v, 0)
               ELSE outbound' = outbound
       IN  Send(encode([kind |-> "Panel", button_events |-> press_buttons_events(buttons)]))
    /\ msg' = [kind |-> "press_buttons", buttons |-> buttons]
    /\ UNCHANGED <<_TYPE_MAP, inbound, call, ncalls, proxy, wire, back, stage, varsFrame>>

NextButtons == \E buttons \in SeqsUpTo(PressedButtons, MaxButtons) : press_buttons(buttons)

\* one call of press_buttons
SpecButtons == Init /\ [][NextButtons]_vars

(***************************************************************************)
(* Transactions that move a bank: _send_and_receive(MoveBank(...)) with    *)
(* the device acknowledging as MoveBank's documentation says.              *)
(***************************************************************************)
\* the MoveBank requests: Program objects, between the banks 0 and 9
MoveBankRequests ==
    [kind : {"MoveBank"}, type : {Program}, bank : {0, 9}, newbank : {0, 9}]

NextBank ==
    \/ \E c \in DOMAIN call, m \in MoveBankRequests, t \in Timeouts : Start(c, m, t)
    \/ \E c \in DOMAIN call : Poll(c)
    \/ DeviceReply

\* one caller moving banks, the device acknowledging
SpecBank == Init /\ [][NextBank]_vars

(***************************************************************************)
(* k2000/client.py: K2BaseClient.is_connected, through get_screen_text.    *)
(* proxy holds the frame of the property's evaluation.                     *)
(***************************************************************************)
\* get_screen_text(timeout=0.1), in milliseconds
ConnectTimeout == 100

\* str(message): ScreenReply defines __str__; the other classes have the
\* repr attrs generates, which never fails
str(message) ==
    IF message.kind = "ScreenReply" THEN ScreenReply_str(message.data)
    ELSE Ok([kind |-> "repr", of |-> message.kind])

\* caller c evaluates is_connected: get_screen_text(timeout=0.1) enters
\* _send_and_receive(AllText(), 0.1)
IsConnected(c) ==
    /\ ~ProxyBusy
    /\ proxy.reads < MaxReads
    /\ Enter(c, [kind |-> "AllText"], ConnectTimeout)
    /\ proxy' = [IdleProxy EXCEPT !.op = "is_connected", !.pc = "get_screen_text",
                                  !.reads = proxy.reads + 1]

\* is_connected goes on once the call has ended: "except TimeoutError" gives
\* False, any other exception passes through; a response is turned into a
\* str, which is not None
IsConnectedResume(c) ==
    /\ proxy.op = "is_connected"
    /\ proxy.pc = "get_screen_text"
    /\ call[c].pc \in {"returned", "raised"}
    /\ IF call[c].pc = "raised"
       THEN IF call[c].result.e.exc = "TimeoutError"
            THEN proxy' = [proxy EXCEPT !.pc = "returned", !.result = Ok(FALSE)]
            ELSE proxy' = [proxy EXCEPT !.pc = "raised", !.result = call[c].result]
       ELSE IF str(call[c].result.v).ok
            THEN proxy' = [proxy EXCEPT !.pc = "returned", !.result = Ok(TRUE)]
            ELSE proxy' = [proxy EXCEPT !.pc = "raised", !.result = str(call[c].result.v)]
    /\ UNCHANGED <<_TYPE_MAP, inbound, outbound, call, ncalls, varsCodec, varsFrame>>

NextConnected ==
    \/ \E c \in DOMAIN call : IsConnected(c)
    \/ \E c \in DOMAIN call : IsConnectedResume(c)
    \/ \E c \in DOMAIN call : Poll(c)
    \/ DeviceReply
    \/ Noise

\* one caller asking is_connected; the device answers or not, and frames
\* nobody asked for arrive
SpecConnected == Init /\ [][NextConnected]_vars

(***************************************************************************)
(* Properties                                                              *)
(***************************************************************************)
\* C1: every message of the catalog, its fields inside their declared
\* domains, encodes without error, and decoding the encoding gives back a
\* message of the same class equal to the original, field by field.
RoundTrip ==
    /\ stage # "new" => wire.ok
    /\ stage = "decoded" => back = Ok(msg)

\* a bit-stream Load with two data bytes has made the round trip
RoundTripDone ==
    /\ stage = "decoded"
    /\ msg.kind = "Load"
    /\ msg.form = BitStream
    /\ Len(msg.data) = 2
    /\ back = Ok(msg)

\* C10: has_valid_k2_headers(data) is true exactly when data has at least
\* six bytes, starts with F0 07 00 78 and ends with F7.
FrameMarkers ==
    checked =>
        (valid <=> /\ Len(buf) >= 6
                   /\ SubSeq(buf, 1, 4) = <<240, 7, 0, 120>>
                   /\ buf[Len(buf)] = 247)

\* a header, a two-byte middle and a footer were screened and passed
FrameMarkersPassed == checked /\ valid /\ Len(buf) = 7

(***************************************************************************)
(* What the loop body finds in a polled entry e, for the call cl           *)
(***************************************************************************)
Accepts(cl, e) ==
    /\ has_valid_k2_headers(e.frame)
    /\ LET decoded == decode(e.frame)
       IN  decoded.ok /\ isinstance(decoded.v, response_classes(cl.message))

FailsToDecode(e) == has_valid_k2_headers(e.frame) /\ ~decode(e.frame).ok

\* the last entry the call cl polled that failed to decode
LatestFailure(cl) ==
    CHOOSE k \in 1..Len(cl.polled) :
        /\ FailsToDecode(cl.polled[k])
        /\ \A j \in (k + 1)..Len(cl.polled) : ~FailsToDecode(cl.polled[j])

\* the outbound entries written by the call cl
SentBy(cl) == {k \in 1..Len(outbound) : outbound[k].call = cl.id}

\* C2: a call that returns, returns the decoding of the frame it polled
\* last, that frame is acceptable and no frame it polled before was, and it
\* polled within its budget; a call that has polled an acceptable frame has
\* returned (it takes nothing more from the queue).
FirstMatchWins ==
    \A c \in DOMAIN call :
        LET cl == call[c]
            n == Len(cl.polled)
        IN  /\ cl.pc = "returned" =>
                  /\ n >= 1
                  /\ Accepts(cl, cl.polled[n])
                  /\ cl.result.ok
                  /\ cl.result.v = decode(cl.polled[n].frame).v
                  /\ \A k \in 1..(n - 1) : ~Accepts(cl, cl.polled[k])
                  /\ cl.i <= PollBudget(cl.timeout)
            /\ (\E k \in 1..n : Accepts(cl, cl.polled[k])) => cl.pc = "returned"

\* Dir(Program, 1) polled the four bytes "1234", then the INFO frame, and
\* returned the Info
GarbageThenInfo ==
    \E c \in DOMAIN call :
        /\ call[c].pc = "returned"
        /\ call[c].message = [kind |-> "Dir", type |-> Program, idno |-> 1]
        /\ Len(call[c].polled) = 2
        /\ call[c].polled[1].frame = Garbage
        /\ call[c].result.v.kind = "Info"
        /\ call[c].result.v.idno = 1

\* C3: a call that polled a frame failing to decode and, later, an
\* acceptable frame has returned the latter's decoding; and a call that
\* raises after polling does so only once its budget is used up.
DecodeFailureNotFatal ==
    \A c \in DOMAIN call :
        LET cl == call[c]
            n == Len(cl.polled)
        IN  /\ \A j \in 1..n, k \in 1..n :
                  (j < k /\ FailsToDecode(cl.polled[j]) /\ Accepts(cl, cl.polled[k])) =>
                      /\ cl.pc = "returned"
                      /\ cl.result.ok
                      /\ cl.result.v = decode(cl.polled[k].frame).v
            /\ (cl.pc = "raised" /\ cl.i > 0) => cl.i = PollBudget(cl.timeout)

\* a call polled the INFO frame cut short, then a good one, and returned
HalfInfoThenInfo ==
    \E c \in DOMAIN call :
        /\ call[c].pc = "returned"
        /\ Len(call[c].polled) = 2
        /\ call[c].polled[1].frame = HalfInfo
        /\ call[c].result.v.kind = "Info"

\* C4: a call that raises after polling has polled no acceptable frame, and
\* raises the error of the last frame that failed to decode or, if none
\* did, TimeoutError.
ExhaustionRaises ==
    \A c \in DOMAIN call :
        LET cl == call[c]
            n == Len(cl.polled)
        IN  (cl.pc = "raised" /\ cl.i > 0) =>
                /\ \A k \in 1..n : ~Accepts(cl, cl.polled[k])
                /\ ~cl.result.ok
                /\ IF \E k \in 1..n : FailsToDecode(cl.polled[k])
                   THEN cl.result.e = decode(cl.polled[LatestFailure(cl)].frame).e
                   ELSE cl.result.e = TimeoutError(cl.timeout)

\* a call polled the INFO frame cut short, then the frame of unknown type,
\* and raised the latter's NotImplementedError
LatestErrorRaised ==
    \E c \in DOMAIN call :
        /\ call[c].pc = "raised"
        /\ Len(call[c].polled) = 2
        /\ call[c].polled[1].frame = HalfInfo
        /\ call[c].polled[2].frame = UnknownType
        /\ call[c].result.e.exc = "NotImplementedError"

\* C5, as the code has it: a call polls at most max(1, ceil(timeout / 10 ms))
\* times; it is still polling only below max(1, int(timeout / 10 ms)) polls,
\* the quotient cut to a whole number, and has polled exactly that many
\* times when it raises after polling (once for a zero timeout); and every
\* call that polls ends.
PollCount ==
    /\ [](\A c \in DOMAIN call :
            LET cl == call[c]
            IN  /\ cl.i <= Max(1, (cl.timeout + 9) \div 10)
                /\ cl.pc = "polling" => cl.i < Max(1, cl.timeout \div 10)
                /\ (cl.pc = "raised" /\ cl.i > 0) => cl.i = Max(1, cl.timeout \div 10))
    /\ \A c \in {1} : (call[c].pc = "polling") ~> (call[c].pc # "polling")

\* C5 as claimed: a call that finds no acceptable frame has polled exactly
\* max(1, ceil(timeout / 10 ms)) times.
PollCountCeil ==
    \A c \in DOMAIN call :
        (call[c].pc = "raised" /\ call[c].i > 0) =>
            call[c].i = Max(1, (call[c].timeout + 9) \div 10)

\* a call with a timeout of 15 ms raised TimeoutError after a single poll
OnePollIn15ms ==
    \E c \in DOMAIN call :
        /\ call[c].pc = "raised"
        /\ call[c].timeout = 15
        /\ call[c].i = 1
        /\ call[c].result.e.exc = "TimeoutError"

\* C6, as the code has it: a call whose request encodes has written exactly
\* one frame, that encoding, from its entry on (so before its first poll)
\* and whatever its outcome; a call whose request does not encode has
\* written nothing, has not polled and has raised the encoding's error; and
\* nothing else is ever written.
OneFrameSent ==
    /\ Len(outbound) <= ncalls
    /\ \A c \in DOMAIN call :
          LET cl == call[c]
              frame == encode(cl.message)
          IN  cl.pc # "idle" =>
                  IF frame.ok
                  THEN /\ Cardinality(SentBy(cl)) = 1
                       /\ \A k \in SentBy(cl) : outbound[k].frame = frame.v
                  ELSE /\ SentBy(cl) = {}
                       /\ cl.pc = "raised"
                       /\ cl.i = 0
                       /\ cl.result = frame

\* C6 as claimed: every call has written exactly one frame, the encoding of
\* its request.
OneFrameSentAlways ==
    \A c \in DOMAIN call :
        call[c].pc # "idle" =>
            /\ Cardinality(SentBy(call[c])) = 1
            /\ encode(call[c].message).ok
            /\ \A k \in SentBy(call[c]) : outbound[k].frame = encode(call[c].message).v

\* a call raised the decode error it held, its one frame written
SentThenDecodeError ==
    \E c \in DOMAIN call :
        /\ call[c].pc = "raised"
        /\ call[c].result.e.cexc = "IndexError"
        /\ Cardinality(SentBy(call[c])) = 1
        /\ call[c].i >= 1

\* C7: a call that polled an acceptable frame has returned its decoding,
\* whichever call the frame answers and whatever type and idno it carries;
\* and the proxy's read uses the Info it got, whatever its idno: the name it
\* returns is that Info's, and it raises only for a rejected key or what its
\* call raised.
TypeOnlyCorrelation ==
    /\ [](/\ \A c \in DOMAIN call :
                \A k \in 1..Len(call[c].polled) :
                    Accepts(call[c], call[c].polled[k]) =>
                        /\ call[c].pc = "returned"
                        /\ call[c].result.ok
                        /\ call[c].result.v = decode(call[c].polled[k].frame).v
          /\ (proxy.pc = "returned" /\ proxy.result.v.kind = "tuple") =>
                proxy.result.v.name = proxy.info.name)
    /\ [][(proxy' # proxy /\ proxy'.pc = "raised") =>
              \/ KeyRejected(proxy'.key)
              \/ \E c \in DOMAIN call :
                    call[c].pc = "raised" /\ proxy'.result = call[c].result]_vars

\* a dir() for idno 1 timed out, its INFO frame came late, and the read of
\* proxy[2] took that Info, which tells of an object without data, for its
\* own and returned None
StaleInfoUsed ==
    /\ proxy.pc = "returned"
    /\ proxy.key = 2
    /\ proxy.info.kind = "Info"
    /\ proxy.info.idno = 1
    /\ proxy.result = Ok([kind |-> "None"])

\* C8: with two callers polling the same queue, once a call has taken the
\* frame sent in reply to another call's request, that other call, when it
\* ends, has raised TimeoutError or has returned a frame sent in reply to
\* someone else.
RepliesStolen ==
    \A c \in DOMAIN call, d \in DOMAIN call :
        LET victim == call[c]
            thief == call[d]
        IN  (/\ c # d
             /\ victim.id # 0
             /\ victim.pc \in {"returned", "raised"}
             /\ \E k \in 1..Len(thief.polled) : thief.polled[k].re = victim.id) =>
                \/ /\ victim.pc = "raised"
                   /\ victim.result.e = TimeoutError(victim.timeout)
                \/ /\ victim.pc = "returned"
                   /\ victim.polled[Len(victim.polled)].re # victim.id

\* one call returned the reply to the other's request, and the other timed out
ReplyStolen ==
    \E c \in DOMAIN call, d \in DOMAIN call :
        /\ c # d
        /\ call[d].pc = "returned"
        /\ call[d].polled[Len(call[d].polled)].re = call[c].id
        /\ call[c].pc = "raised"
        /\ call[c].result.e.exc = "TimeoutError"

\* the classes of the screen queries
ScreenQueries == {"AllText", "ParameterValue", "ParameterName", "GetGraphics"}

\* C9 as claimed: a call that sent a screen query returns a ScreenReply only.
ScreenReplyOnly ==
    \A c \in DOMAIN call :
        (call[c].message.kind \in ScreenQueries /\ call[c].pc = "returned") =>
            call[c].result.v.kind = "ScreenReply"

\* the type bytes of the catalog: 0x00..0x11 and 0x14..0x19
CatalogTypeBytes == (0..17) \cup (20..25)

\* the three failures SysexMessage.decode reports for a frame's markers
MalformedFrame(r, why) == ~r.ok /\ r.e.exc = "ValueError" /\ r.e.why = why

\* C11: SysexMessage.decode fails for a malformed frame exactly when the
\* input has fewer than six bytes, or else its first four bytes are not the
\* header, or else its last byte is not the footer, telling the three apart
\* in that order; an input with valid markers fails for an unsupported
\* message type exactly when its fifth byte is none of the catalog's type
\* bytes, and only otherwise does a body decoder run: the result is that
\* class's message, or the failure to decode the packet as that class.
DecodeOutcome ==
    checked =>
        LET short == Len(buf) < 6
            badhead == SubSeq(buf, 1, 4) # <<240, 7, 0, 120>>
            badfoot == buf[Len(buf)] # 247
            marked == ~short /\ ~badhead /\ ~badfoot
            ranbody == \/ back.ok
                       \/ /\ back.e.why = "failed to decode packet"
                          /\ back.e.num = Len(buf)
        IN  /\ MalformedFrame(back, "packet too small") <=> short
            /\ MalformedFrame(back, "invalid header") <=> (~short /\ badhead)
            /\ MalformedFrame(back, "invalid footer") <=> (~short /\ ~badhead /\ badfoot)
            /\ marked =>
                  /\ (~back.ok /\ back.e.exc = "NotImplementedError")
                         <=> buf[5] \notin CatalogTypeBytes
                  /\ buf[5] \in CatalogTypeBytes =>
                         /\ ranbody
                         /\ back.ok => MsgTypeInt[back.v.kind] = buf[5]
                         /\ ~back.ok => MsgTypeInt[back.e.klass] = buf[5]
            /\ ranbody => marked /\ buf[5] \in CatalogTypeBytes

\* a frame with the header, the footer and the type byte 0x12, which the
\* catalog lacks, was refused as of an unsupported type
DecodeOutcomeSeen ==
    /\ checked
    /\ buf = <<240, 7, 0, 120, 18, 247>>
    /\ ~back.ok
    /\ back.e.exc = "NotImplementedError"

\* the position at which the corrupted frame differs from the encoding
CorruptedAt == CHOOSE p \in 1..Len(buf) : buf[p] # wire.v[p]

\* SysexMessage.decode failed on the body decoder's checksum comparison
ChecksumMismatch(r) ==
    /\ ~r.ok
    /\ r.e.cexc = "ValueError"
    /\ r.e.cwhy = "checksum mismatch"

\* C12: once the byte right before the footer of an encoded Load or Write
\* message has been replaced by any other value, decoding the frame fails,
\* and the failure is the checksum mismatch the body decoder reports.
BadChecksumRefused ==
    (stage = "refused or decoded" /\ CorruptedAt = Len(buf) - 1) =>
        ChecksumMismatch(back)

\* a Write message whose checksum byte was raised by one was refused
BadChecksumSeen ==
    /\ stage = "refused or decoded"
    /\ msg.kind = "Write"
    /\ Len(msg.data) = 2
    /\ CorruptedAt = Len(buf) - 1
    /\ buf[Len(buf) - 1] = wire.v[Len(buf) - 1] + 1
    /\ ChecksumMismatch(back)

\* where the packed data starts in the frame of the message under test:
\* after the header, the type byte and, for Load, type(2) idno(2) offset(3)
\* size(3) form(1); for Write, type(2) idno(2) size(3) mode(1), the name,
\* its NUL and form(1)
PayloadStart == IF msg.kind = "Load" THEN 17 ELSE 16 + Len(msg.name)

\* the bytes between the form byte and the checksum byte
Payload(frame) == SubSeq(frame, PayloadStart, Len(frame) - 2)

\* the number whose digits in the given base are s, most significant first
RECURSIVE Radix(_, _)
Radix(s, base) ==
    IF s = <<>> THEN 0 ELSE Radix(SubSeq(s, 1, Len(s) - 1), base) * base + s[Len(s)]

\* packed is data at 4 bits a byte (Nibblized) or 7 bits a byte (BitStream)
PackedAs(packed, data, form) ==
    IF form = 0
    THEN /\ Len(packed) = 2 * Len(data)
         /\ \A i \in 1..Len(data) :
               packed[2 * i - 1] = data[i] \div 16 /\ packed[2 * i] = data[i] % 16
    ELSE /\ Len(packed) = (8 * Len(data) + 6) \div 7
         /\ \A i \in 1..Len(packed) : packed[i] < 128
         /\ Radix(packed, 128) = Radix(data, 256)

\* C13: in the encoding of every Load and Write message the byte right
\* before the footer is the sum, modulo 128, of the bytes between the form
\* byte and itself, which are the message's data packed at 4 bits
\* (Nibblized) or 7 bits (BitStream) a byte; and decode sums that same
\* region: replacing one of its bytes by one that changes the sum modulo 128
\* makes decode fail on the checksum, while replacing the form byte never
\* does.
ChecksumRule ==
    /\ stage # "new" =>
          /\ wire.ok
          /\ wire.v[PayloadStart - 1] = msg.form
          /\ PackedAs(Payload(wire.v), msg.data, msg.form)
          /\ wire.v[Len(wire.v) - 1] = Radix(Payload(wire.v), 1) % 128
    /\ stage = "refused or decoded" =>
          /\ (/\ CorruptedAt \in PayloadStart..(Len(buf) - 2)
              /\ (buf[CorruptedAt] - wire.v[CorruptedAt]) % 128 # 0)
                 => ChecksumMismatch(back)
          /\ CorruptedAt = PayloadStart - 1 => ~ChecksumMismatch(back)

\* a nibblized Load of the bytes F7 FF carries the checksum 0x34, the sum
\* of the nibbles F 7 F F, and was refused once its first nibble was zeroed
ChecksumRuleSeen ==
    /\ stage = "refused or decoded"
    /\ msg.kind = "Load"
    /\ msg.form = 0
    /\ msg.data = <<247, 255>>
    /\ Payload(wire.v) = <<15, 7, 15, 15>>
    /\ wire.v[Len(wire.v) - 1] = 52
    /\ buf[PayloadStart] = 0
    /\ ChecksumMismatch(back)

\* the number encode_n is asked to pack: the integer, or the byte string
\* read as a big-endian integer
PackValue == IF msg.value.ty = "int" THEN msg.value.int ELSE Radix(msg.value.bytes, 256)

\* C14 as claimed: encode_n raises ValueError, giving no bytes, whenever the
\* value is negative or at least 2^(n * num_bytes), be it given as an
\* integer or as a big-endian byte string.
PackRefusesOversized ==
    (/\ msg.kind = "encode_n"
     /\ stage # "new"
     /\ (PackValue < 0 \/ PackValue >= 2 ^ (msg.n * msg.num_bytes))) =>
        ~wire.ok /\ wire.e.exc = "ValueError"

\* C15: for every width n in 1..7, every num_bytes k >= 1 and every integer
\* 0 <= v < 2^(n * k), encode_n(v, k, n) gives exactly k bytes, each below
\* 2^n, that are the base-2^n digits of v, most significant first; and
\* decode_n of them, read as a big-endian integer, is v.
PackRoundTrip ==
    (/\ msg.kind = "encode_n"
     /\ msg.value.ty = "int"
     /\ 0 <= msg.value.int
     /\ msg.value.int < 2 ^ (msg.n * msg.num_bytes)) =>
        /\ stage # "new" =>
              /\ wire.ok
              /\ Len(wire.v) = msg.num_bytes
              /\ \A i \in 1..Len(wire.v) : wire.v[i] \in 0..(2 ^ msg.n - 1)
              /\ Radix(wire.v, 2 ^ msg.n) = msg.value.int
        /\ stage = "decoded" =>
              /\ back.ok
              /\ Radix(back.v, 256) = msg.value.int

\* 2^21 - 1 went through three 7-bit bytes and came back
PackRoundTripDone ==
    /\ stage = "decoded"
    /\ msg.kind = "encode_n"
    /\ msg.value = IntV(2 ^ 21 - 1)
    /\ msg.num_bytes = 3
    /\ msg.n = 7
    /\ wire.v = <<127, 127, 127>>
    /\ back.v = <<31, 255, 255>>

\* C16: decode_n(data, n) raises ValueError exactly when some byte of data
\* has a bit set at position n or above; otherwise it gives
\* ceil(n * len(data) / 8) bytes which, read as one binary number, are the
\* low n bits of each input byte one after the other, with zeros in front.
UnpackOutcome ==
    (msg.kind = "decode_n" /\ stage = "decoded") =>
        /\ (~back.ok /\ back.e.exc = "ValueError")
               <=> \E i \in 1..Len(msg.value) : msg.value[i] >= 2 ^ msg.n
        /\ back.ok =>
              /\ Len(back.v) = (msg.n * Len(msg.value) + 7) \div 8
              /\ \A i \in 1..Len(back.v) : back.v[i] \in 0..255
              /\ Radix(back.v, 256) = Radix(msg.value, 2 ^ msg.n)

\* three 5-bit bytes gave the two bytes that hold their fifteen bits
UnpackSeen ==
    /\ stage = "decoded"
    /\ msg.kind = "decode_n"
    /\ msg.n = 5
    /\ msg.value = <<31, 1, 31>>
    /\ back = Ok(<<124, 63>>)

\* C17 as claimed: an access to the proxy, read or write, with a key that
\* is no integer raises TypeError, and one with an integer key outside
\* 1..999 raises ValueError; in both cases nothing has been written to
\* midi_out and midi_in has not been polled.
KeyValidation ==
    (proxy.reads = 1 /\ (~proxy.intkey \/ proxy.key \notin 1..999)) =>
        /\ proxy.pc = "raised"
        /\ proxy.result.e.exc = IF proxy.intkey THEN "ValueError" ELSE "TypeError"
        /\ outbound = <<>>
        /\ \A c \in DOMAIN call : call[c].i = 0

\* the DIR and DUMP frames the proxy of Program objects sends for key k
DirFrame(k) == <<240, 7, 0, 120, 4, 1, 4, k \div 128, k % 128, 247>>
DumpFrame(k) ==
    <<240, 7, 0, 120, 0, 1, 4, k \div 128, k % 128, 0, 0, 0, 127, 127, 127, 1, 247>>

\* C18: a read of the proxy at a key k in 1..999 sends Dir(type, k) first;
\* once that call has returned an Info, it sends Dump(type, k) if the
\* Info's size is not zero, and returns None without sending anything if it
\* is zero; once the dump call has returned a Load, it returns the Info's
\* name with the Load's data, sending nothing more.
ReadProtocol ==
    /\ []((proxy.op = "getitem" /\ proxy.key \in 1..999) =>
            /\ proxy.pc = "dir" =>
                  /\ outbound # <<>>
                  /\ outbound[Len(outbound)].frame = DirFrame(proxy.key)
            /\ proxy.pc = "dump" =>
                  /\ proxy.info.size # 0
                  /\ Len(outbound) >= 2
                  /\ outbound[Len(outbound) - 1].frame = DirFrame(proxy.key)
                  /\ outbound[Len(outbound)].frame = DumpFrame(proxy.key)
            /\ proxy.pc = "returned" =>
                  (proxy.result.v.kind = "None" <=> proxy.info.size = 0))
    /\ [][\A c \in DOMAIN call :
            (/\ proxy' # proxy
             /\ proxy.op = "getitem"
             /\ proxy.key \in 1..999
             /\ proxy.pc \in {"dir", "dump"}
             /\ call[c].pc = "returned") =>
                IF proxy.pc = "dump"
                THEN /\ proxy'.pc = "returned"
                     /\ proxy'.result =
                            Ok([kind |-> "tuple", name |-> proxy.info.name,
                                data |-> call[c].result.v.data])
                     /\ call[c].result.v.kind = "Load"
                     /\ outbound' = outbound
                ELSE /\ proxy'.info = call[c].result.v
                     /\ call[c].result.v.kind = "Info"
                     /\ IF call[c].result.v.size = 0
                        THEN /\ proxy'.pc = "returned"
                             /\ proxy'.result = Ok([kind |-> "None"])
                             /\ outbound' = outbound
                        ELSE /\ proxy'.pc = "dump"
                             /\ Len(outbound') = Len(outbound) + 1
                             /\ outbound'[Len(outbound')].frame = DumpFrame(proxy.key)]_vars

\* proxy[2] sent a DIR and a DUMP frame and returned the name and the data
\* byte the device answered with
ReadGaveNameAndData ==
    /\ proxy.op = "getitem"
    /\ proxy.key = 2
    /\ proxy.pc = "returned"
    /\ proxy.info.idno = 2
    /\ proxy.result = Ok([kind |-> "tuple", name |-> <<72, 105>>, data |-> <<1>>])
    /\ Len(outbound) = 2
    /\ outbound[1].frame = DirFrame(2)
    /\ outbound[2].frame = DumpFrame(2)

\* f is the frame of Write(Program, k, WriteToExactIDNumber, name, BitStream, data)
IsWriteFrame(f, k, name, data) ==
    LET n == Len(name)
        size == Len(data)
        packed == SubSeq(f, 16 + n, Len(f) - 2)
    IN  /\ Len(f) >= 17 + n
        /\ SubSeq(f, 1, 13) = <<240, 7, 0, 120, 9, 1, 4, k \div 128, k % 128,
                                size \div 16384, (size \div 128) % 128, size % 128, 0>>
        /\ SubSeq(f, 14, 13 + n) = name
        /\ f[14 + n] = 0
        /\ f[15 + n] = 1
        /\ PackedAs(packed, data, 1)
        /\ f[Len(f) - 1] = Radix(packed, 1) % 128
        /\ f[Len(f)] = 247

\* a write of the proxy with a key in 1..999 and a (name, data) pair whose
\* name is ASCII
ValidWrite(p) ==
    /\ p.op = "setitem"
    /\ p.intkey
    /\ p.key \in 1..999
    /\ p.value.kind = "tuple"
    /\ \A i \in 1..Len(p.value.name) : p.value.name[i] < 128

\* C19: a write of the proxy with a valid key and a valid value sends one
\* Write(type, key, name, data) frame when it starts and nothing afterwards;
\* when its call returns a DataNotAcknowledged it raises an error that
\* carries that message's code, and when its call returns a
\* DataAcknowledged it ends without error.
WriteProtocol ==
    [][\A c \in DOMAIN call :
          /\ (ValidWrite(proxy') /\ proxy'.pc = "write" /\ proxy.pc # "write") =>
                /\ Len(outbound') = Len(outbound) + 1
                /\ IsWriteFrame(outbound'[Len(outbound')].frame, proxy'.key,
                                proxy'.value.name, proxy'.value.data)
          /\ (ValidWrite(proxy) /\ proxy.pc = "write" /\ proxy' # proxy) =>
                /\ outbound' = outbound
                /\ call[c].pc = "returned" =>
                      /\ call[c].result.v.kind \in {"DataAcknowledged", "DataNotAcknowledged"}
                      /\ call[c].result.v.kind = "DataNotAcknowledged" =>
                            /\ proxy'.pc = "raised"
                            /\ proxy'.result.e.exc = "RuntimeError"
                            /\ proxy'.result.e.num = call[c].result.v.code
                      /\ call[c].result.v.kind = "DataAcknowledged" =>
                            /\ proxy'.pc = "returned"
                            /\ proxy'.result.ok]_vars

\* proxy[1] = ("Hi", b"\x01") sent one WRITE frame and raised with the code
\* ObjectNotFound of the device's DNAK
WriteRefused ==
    /\ proxy.op = "setitem"
    /\ proxy.key = 1
    /\ proxy.pc = "raised"
    /\ proxy.result.e.exc = "RuntimeError"
    /\ proxy.result.e.num = 4
    /\ Len(outbound) = 1
    /\ IsWriteFrame(outbound[1].frame, 1, <<72, 105>>, <<1>>)


\* the bytes of data up to its last non-zero byte
WithoutTrailingZeros(data) ==
    SubSeq(data, 1, Cardinality({i \in 1..Len(data) : \E j \in i..Len(data) : data[j] # 0}))

\* the non-zero bytes of row r (from 1) of a text grid, 40 bytes a row
GridRow(data, r) ==
    LET row == [i \in 1..40 |-> data[40 * (r - 1) + i]]
    IN  SelectSeq(row, LAMBDA x : x # 0)

\* the 8 rows of a text grid joined by newlines
GridText(data) ==
    GridRow(data, 1) \o <<10>> \o GridRow(data, 2) \o <<10>> \o GridRow(data, 3) \o <<10>>
    \o GridRow(data, 4) \o <<10>> \o GridRow(data, 5) \o <<10>> \o GridRow(data, 6) \o <<10>>
    \o GridRow(data, 7) \o <<10>> \o GridRow(data, 8)

TypeMismatch(r) == ~r.ok /\ r.e.exc = "TypeError"

\* C20 as written: a ScreenReply payload is interpreted by its length alone.
\* Converting to a string fails with a type mismatch exactly when the length
\* is 2561, yields the 8 rows of 40 bytes (zero bytes dropped) joined by
\* newlines when the length is 321, and yields the payload with trailing zero
\* bytes stripped for every other length; to_pixel_array fails with a type
\* mismatch exactly when the length is not 2561.
ScreenByLengthAlone ==
    /\ stage = "str" =>
          /\ TypeMismatch(back) <=> Len(msg.data) = 2561
          /\ Len(msg.data) = 321 => back = Ok(GridText(msg.data))
          /\ Len(msg.data) \notin {321, 2561} => back = Ok(WithoutTrailingZeros(msg.data))
    /\ stage = "pixels" => (TypeMismatch(back) <=> Len(msg.data) # 2561)

\* C20: converting a ScreenReply to a string fails with a type mismatch
\* exactly when the payload's length is 2561 and yields the 8 rows of 40 bytes
\* (zero bytes dropped) joined by newlines when it is 321; for every other
\* length the payload without its trailing zero bytes is decoded as ASCII,
\* which yields it when all its bytes are below 128 and fails with a
\* UnicodeDecodeError, not a type mismatch, when one is not.  to_pixel_array
\* fails with a type mismatch exactly when the length is not 2561.
ScreenByLength ==
    /\ stage = "str" =>
          /\ TypeMismatch(back) <=> Len(msg.data) = 2561
          /\ Len(msg.data) = 321 => back = Ok(GridText(msg.data))
          /\ Len(msg.data) \notin {321, 2561} =>
                LET text == WithoutTrailingZeros(msg.data)
                IN  IF \A i \in 1..Len(text) : text[i] < 128
                    THEN back = Ok(text)
                    ELSE ~back.ok /\ back.e.exc = "UnicodeDecodeError"
    /\ stage = "pixels" => (TypeMismatch(back) <=> Len(msg.data) # 2561)

\* C20 witness: a short payload holding a byte that is no ASCII has been
\* converted to a string, which failed with a UnicodeDecodeError
ScreenByLengthSeen ==
    /\ stage = "str"
    /\ msg.data = <<200>>
    /\ ~back.ok
    /\ back.e.exc = "UnicodeDecodeError"

\* C21: from_screen_contents pads or truncates any input string to the
\* 320-character grid before appending the terminator, so the ScreenReply it
\* builds always has a payload of exactly 321 bytes, which converts to a
\* string as a text grid and to no pixel array.
ScreenContentsFitGrid ==
    (msg.kind = "str" /\ stage # "new" /\ wire.ok) =>
        /\ Len(wire.v.data) = 321
        /\ stage = "str" => back = Ok(GridText(wire.v.data))
        /\ stage = "pixels" => TypeMismatch(back)


\* C28: pixel round trip.  For every 240 x 64 boolean pixel array p,
\* from_pixel_array(p) has a payload of exactly 2561 bytes, and its
\* to_pixel_array() has the shape 240 x 64, with 255 at exactly the positions
\* (r, c) where p[r][c] is set and 0 elsewhere.
PixelRoundTrip ==
    (msg.kind = "ndarray" /\ shape(msg.value) = <<240, 64>> /\ stage # "new") =>
        /\ wire.ok
        /\ Len(wire.v.data) = 2561
        /\ stage = "pixels" =>
              /\ back.ok
              /\ shape(back.v) = <<240, 64>>
              /\ \A r \in 1..240, c \in 1..64 :
                    back.v[r][c] = IF msg.value[r][c] THEN 255 ELSE 0


\* C22: registry invariant.  Once the module is imported, the type-byte to
\* variant table holds exactly the type bytes 0x00..0x11 and 0x14..0x19, each
\* in [0, 127] and each mapped to a distinct variant, with every variant of
\* the catalog under its own type byte; and no encode or decode call changes
\* the table.
RegistryInvariant ==
    /\ [](stage # "import" =>
            /\ DOMAIN _TYPE_MAP = CatalogTypeBytes
            /\ \A b \in DOMAIN _TYPE_MAP : b >= 0 /\ b <= 127
            /\ \A a \in DOMAIN _TYPE_MAP, b \in DOMAIN _TYPE_MAP :
                  _TYPE_MAP[a] = _TYPE_MAP[b] => a = b
            /\ \A k \in Kinds : _TYPE_MAP[MsgTypeInt[k]] = k)
    /\ [][(stage \in {"new", "encoded"}) => UNCHANGED _TYPE_MAP]_vars

\* C22 witness: a frame of the last class registered, ScreenReply, has been
\* decoded with the table
RegistryUsed ==
    /\ stage = "decoded"
    /\ back.ok
    /\ back.v.kind = "ScreenReply"
    /\ Cardinality(DOMAIN _TYPE_MAP) = 24


\* the variants that carry a name, which starts after their fixed fields
NameKinds == {"Info", "New", "Change", "Write"}

\* the bytes of a body from the name's offset on
NameField(kind, body) == SubSeq(body, FixedLen[kind] + 1, Len(body))

\* a decode that failed within the variant's body decoder
IsDecodeFailed(r) == ~r.ok /\ r.e.exc = "ValueError" /\ r.e.why = "failed to decode packet"

\* C23: name fields are NUL-terminated.  Decoding a frame of a name-carrying
\* variant (Info, New, Change, Write) whose name field has no NUL terminator,
\* that is no zero byte from the name's offset on, fails with DecodeFailed;
\* no message is produced from such a frame.
NamesNulTerminated ==
    (/\ checked
     /\ BodyKind(buf) \in NameKinds
     /\ Len(BodyOf(buf)) >= FixedLen[BodyKind(buf)]
     /\ \A i \in 1..Len(NameField(BodyKind(buf), BodyOf(buf))) :
           NameField(BodyKind(buf), BodyOf(buf))[i] # 0) =>
        IsDecodeFailed(back)


\* the size field a Load or Write body carries: three septets, at offset 7
\* for Load and 4 for Write
SizeField(kind, body) ==
    LET at == IF kind = "Load" THEN 7 ELSE 4
    IN  body[at + 1] * 128 * 128 + body[at + 2] * 128 + body[at + 3]

\* C26: for every frame that decodes successfully as a Load or Write message,
\* the length of the decoded data buffer equals the size field carried in
\* that frame, also for size 0 and for frames whose packed payload is longer
\* or shorter than the size field implies.
DataLenIsSize ==
    (checked /\ back.ok /\ back.v.kind \in {"Load", "Write"}) =>
        Len(back.v.data) = SizeField(back.v.kind, BodyOf(buf))


\* C27: decode never produces a message from a frame whose body is shorter
\* than the fixed-width field layout of its variant (a Dir or Del frame with
\* fewer than 4 body bytes, a Dump frame with fewer than 11): it fails with
\* DecodeFailed instead of decoding with missing fields read as zero.
ShortBodyRefused ==
    (checked /\ Len(BodyOf(buf)) < FixedLen[BodyKind(buf)]) => IsDecodeFailed(back)


\* button i of bs is released right after it is pressed: it is the last, or
\* the next button is another
Released(bs, i) == i = Len(bs) \/ bs[i] # bs[i + 1]

\* where the Down event of button i stands among the events
DownAt(bs, i) == i + Cardinality({j \in 1..(i - 1) : Released(bs, j)})

\* C24: press_buttons on a sequence b1..bk sends one Panel message whose
\* events are, for each i in order, Down(bi), followed by Up(bi) exactly when
\* bi differs from b(i+1) or i = k; so a run of the same button yields that
\* many Down events and a single Up, and every Down is followed, later in the
\* message, by an Up of the same button.
PressedInOrder ==
    msg.kind = "press_buttons" =>
        /\ Len(outbound) = 1
        /\ LET bs == msg.buttons
               panel == decode(outbound[1].frame)
               evs == panel.v.button_events
           IN  /\ panel.ok
               /\ panel.v.kind = "Panel"
               /\ outbound[1].frame[Len(K2_HEADER) + 1] = 20
               /\ Len(evs) = Len(bs) + Cardinality({j \in 1..Len(bs) : Released(bs, j)})
               /\ \A i \in 1..Len(bs) :
                     /\ evs[DownAt(bs, i)] = [event_type |-> 9, button |-> bs[i],
                                              alpha_wheel_clicks |-> 0]
                     /\ Released(bs, i) =>
                           evs[DownAt(bs, i) + 1] = [event_type |-> 8, button |-> bs[i],
                                                     alpha_wheel_clicks |-> 0]
               /\ \A p \in 1..Len(evs) :
                     evs[p].event_type = 9 =>
                        \E q \in (p + 1)..Len(evs) :
                            evs[q].event_type = 8 /\ evs[q].button = evs[p].button

\* C24 witness: 1, 1, 0 was pressed: two Downs of 1, one Up of 1, then Down
\* and Up of 0, as number(110) sends them
PressedRun ==
    /\ msg.kind = "press_buttons"
    /\ msg.buttons = <<1, 1, 0>>
    /\ outbound[1].frame =
          <<240, 7, 0, 120, 20, 9, 1, 64, 9, 1, 64, 8, 1, 64, 9, 0, 64, 8, 0, 64, 247>>


\* the frame is a well-formed ENDOFBANK frame
IsEndOfBankFrame(f) ==
    LET r == decode(f) IN r.ok /\ r.v.kind = "EndOfBank"

\* C25: the acknowledgement of a MoveBank request is an EndOfBank message: a
\* transaction that sends MoveBank and then polls a valid EndOfBank frame
\* returns that EndOfBank as its response.
MoveBankAcknowledged ==
    \A c \in DOMAIN call :
        (/\ call[c].message.kind = "MoveBank"
         /\ call[c].pc \in {"returned", "raised"}
         /\ \E k \in 1..Len(call[c].polled) : IsEndOfBankFrame(call[c].polled[k].frame)) =>
            /\ call[c].pc = "returned"
            /\ call[c].result.v.kind = "EndOfBank"


\* C29: is_connected always yields a boolean and never propagates an error:
\* once the evaluation has ended it has returned True when the AllText call
\* obtained a reply and False when it obtained none, also when the only frames
\* polled passed the marker pre-filter and failed to decode.
IsConnectedIsBoolean ==
    (proxy.op = "is_connected" /\ proxy.pc \in {"returned", "raised"}) =>
        /\ proxy.pc = "returned"
        /\ proxy.result \in {Ok(TRUE), Ok(FALSE)}
        /\ \A c \in DOMAIN call :
               call[c].pc \in {"returned", "raised"} =>
                   (proxy.result = Ok(TRUE) <=> call[c].pc = "returned")


\* C30: encoded frames are 7-bit clean: for every class but ScreenReply and
\* every message encode accepts, each byte strictly between the leading F0
\* and the trailing F7 is in 0..127, so F7 is only the frame's last byte.
EncodedSevenBitClean ==
    (stage \in {"encoded", "decoded"} /\ wire.ok /\ msg.kind # "ScreenReply") =>
        /\ wire.v[1] = 240
        /\ wire.v[Len(wire.v)] = 247
        /\ \A i \in 2..(Len(wire.v) - 1) : wire.v[i] \in 0..127
        /\ \A i \in 1..Len(wire.v) : wire.v[i] = 247 => i = Len(wire.v)

\* a Write with the largest idno, data bytes F7 and FF and the last ASCII
\* character for a name has been encoded
EncodedHighData ==
    /\ stage = "encoded"
    /\ wire.ok
    /\ msg.kind = "Write"
    /\ msg.data = <<247, 255>>
    /\ msg.name = <<127>>
    /\ msg.idno = 2 ^ 14 - 1

====
